---- MODULE Spec2Model ----
(***************************************************************************)
(* Model of the LeetCode note plugin: the template renderer (template.ts: *)
(* buildNoteContent, formatSolutionsSection, formatSingleSolution,         *)
(* formatRuntime, formatMemory, formatDescription, dedupeSolutionsByCode)  *)
(* and the section merger (main.ts: upsertSolutionsSection, extractCodes). *)
(*                                                                         *)
(* A text is a sequence of characters; a character is a one-symbol string. *)
(* Characters outside ASCII are written as named symbols: "middot" is      *)
(* U+00B7, "mdash" is U+2014, "bt" is the backtick U+0060, and the        *)
(* Cyrillic letters of the Russian header are "CyrR"/"cyrr", "CyrE"/"cyre",*)
(* "CyrSh"/"cyrsh", "CyrN"/"cyrn", "CyrI"/"cyri", "CyrYa"/"cyrya".         *)
(***************************************************************************)
EXTENDS Integers, Sequences, FiniteSets, TLC

VARIABLES
    mode,       \* which part of the program the behaviour exercises
    op,         \* the last operation performed
    doc,        \* content of the note file (vault.read / vault.modify)
    prevDoc,    \* content of the note file before the last operation
    lastSols,   \* solution list passed to the last operation
    lastLang,   \* locale passed to the last operation
    lastMeta,   \* metadata and includeDescription passed to the last build
    merges,     \* number of merges performed on the note
    raw,        \* input handed to formatRuntime / formatMemory
    result,     \* value returned by the last pure-function call
    fpUp,       \* how the double nearest to an inexact decimal tie rounds
    inp,        \* the pieces the input of the last pure-function call was built from
    lines,      \* lines of formatDescription: the description split at line breaks
    out,        \* out of formatDescription: the lines emitted so far
    inCode,     \* inCode of formatDescription: is a fence open
    pos,        \* number of lines the loop of formatDescription has processed
    submissions, \* submissions of fetchAcceptedSolutions: the accepted submissions, newest first
    results,    \* results of fetchAcceptedSolutions: the solutions collected so far
    fetched,    \* number of submissions whose details were requested
    pc,         \* where each running handleImportSolution call stands
    contents,   \* content of handleImportSolution, per call: what the call read from the file
    resolved,   \* resolved of handleImportSolution, per call: the solutions the call fetched
    notices,    \* the notices each call has shown
    server,     \* the submissions of the account for the problem, as the server lists them
    limit,      \* the limit of the list request
    vault,      \* the files and folders of the vault, by path
    normalizedFolder, \* normalizedFolder of createNoteFile
    requestedPath, \* requestedPath of createNoteFile
    counter,    \* counter of resolveCollision
    candidate   \* candidate of resolveCollision, then finalPath of createNoteFile

vars == <<mode, op, doc, prevDoc, lastSols, lastLang, lastMeta, merges, raw, result, fpUp, inp,
         lines, out, inCode, pos, submissions, results, fetched, pc, contents, resolved, notices,
         server, limit,
         vault, normalizedFolder, requestedPath, counter, candidate>>

(***************************************************************************)
(* Characters and strings                                                  *)
(***************************************************************************)
Null == <<"NULL">>          \* undefined / null

NL == "\n"
BT == "bt"         \* the backtick character U+0060

WhiteSpace == {" ", "\n", "\t"}

UpperLetters == <<"A","B","C","D","E","F","G","H","I","J","K","L","M","N","O","P","Q","R","S","T","U","V","W","X","Y","Z","CyrR","CyrE","CyrSh","CyrN","CyrI","CyrYa">>
LowerLetters == <<"a","b","c","d","e","f","g","h","i","j","k","l","m","n","o","p","q","r","s","t","u","v","w","x","y","z","cyrr","cyre","cyrsh","cyrn","cyri","cyrya">>

Digits == <<"0","1","2","3","4","5","6","7","8","9">>

IsDigit(c) == \E i \in 1..10 : Digits[i] = c

DigitVal(c) == (CHOOSE i \in 1..10 : Digits[i] = c) - 1

\* String.prototype.toLowerCase, one character
ToLowerChar(c) ==
    IF \E i \in 1..Len(UpperLetters) : UpperLetters[i] = c
    THEN LowerLetters[CHOOSE i \in 1..Len(UpperLetters) : UpperLetters[i] = c]
    ELSE c

ToLowerCase(s) == [i \in 1..Len(s) |-> ToLowerChar(s[i])]

\* the character class [a-z] under the i flag
IsAZ(c) == ToLowerChar(c) \in ({LowerLetters[i] : i \in 1..26})

IsSpace(c) == c \in WhiteSpace

\* does literal lit occur in s at index i (case-sensitive)
StartsAt(s, i, lit) ==
    /\ i >= 1
    /\ i + Len(lit) - 1 <= Len(s)
    /\ \A k \in 1..Len(lit) : s[i + k - 1] = lit[k]

\* does literal lit occur in s at index i under the i flag
StartsAtI(s, i, lit) ==
    /\ i >= 1
    /\ i + Len(lit) - 1 <= Len(s)
    /\ \A k \in 1..Len(lit) : ToLowerChar(s[i + k - 1]) = ToLowerChar(lit[k])

\* the least k in lo..hi with P[k], and hi + 1 when there is none; P is a
\* Boolean function on lo..hi
First(lo, hi, P) ==
    IF \E k \in lo..hi : P[k]
    THEN CHOOSE k \in lo..hi : P[k] /\ \A j \in lo..(k - 1) : ~P[j]
    ELSE hi + 1

\* index after the run of characters of set cs starting at i
SkipSet(s, i, cs) == First(i, Len(s), [k \in i..Len(s) |-> s[k] \notin cs])

\* index of the first non-whitespace character at or after i (Len(s)+1 if none)
SkipSpace(s, i) == SkipSet(s, i, WhiteSpace)

\* String.prototype.trimEnd
TrimEnd(s) ==
    IF \E k \in 1..Len(s) : ~IsSpace(s[k])
    THEN SubSeq(s, 1, CHOOSE k \in 1..Len(s) :
                         ~IsSpace(s[k]) /\ \A j \in (k + 1)..Len(s) : IsSpace(s[j]))
    ELSE <<>>

\* String.prototype.trimStart
TrimStart(s) == SubSeq(s, SkipSpace(s, 1), Len(s))

\* String.prototype.trim
Trim(s) == TrimEnd(TrimStart(s))

\* Array.prototype.join
RECURSIVE Join(_, _)
Join(parts, sep) ==
    IF Len(parts) = 0 THEN <<>>
    ELSE IF Len(parts) = 1 THEN parts[1]
    ELSE parts[1] \o sep \o Join(Tail(parts), sep)

\* String.prototype.split("\n"), the pieces that start at or after start
RECURSIVE SplitFrom(_, _)
SplitFrom(s, start) ==
    LET i == First(start, Len(s), [k \in start..Len(s) |-> s[k] = NL])
    IN  IF i > Len(s) THEN <<SubSeq(s, start, Len(s))>>
        ELSE <<SubSeq(s, start, i - 1)>> \o SplitFrom(s, i + 1)

SplitLines(s) == SplitFrom(s, 1)

\* Number to string, for a non-negative integer
RECURSIVE NatToText(_)
NatToText(n) ==
    IF n < 10 THEN <<Digits[n + 1]>> ELSE NatToText(n \div 10) \o <<Digits[(n % 10) + 1]>>

\* zero-padded decimal of width w
RECURSIVE Pad(_, _)
Pad(n, w) == IF w <= 1 THEN NatToText(n)
             ELSE IF Len(NatToText(n)) >= w THEN NatToText(n)
             ELSE <<"0">> \o Pad(n, w - 1)

(***************************************************************************)
(* Numbers.  A parsed decimal literal is the exact rational n/d (d a power *)
(* of ten).  The program computes in IEEE doubles: where the exact result  *)
(* is a rounding tie and the literal is not exactly representable, the     *)
(* double lies on one side of the tie or the other, and fpUp says which.   *)
(***************************************************************************)
\* index after the run of digits starting at i
DigitsEnd(s, i) == First(i, Len(s), [k \in i..Len(s) |-> ~IsDigit(s[k])])

RECURSIVE ParseNat(_, _, _)
ParseNat(s, i, j) ==
    IF j < i THEN 0 ELSE ParseNat(s, i, j - 1) * 10 + DigitVal(s[j])

RECURSIVE Pow10(_)
Pow10(k) == IF k = 0 THEN 1 ELSE 10 * Pow10(k - 1)

RECURSIVE Pow5(_)
Pow5(k) == IF k = 0 THEN 1 ELSE 5 * Pow5(k - 1)

\* i when i <= n, and 0 (no match) otherwise
IndexOrZero(i, n) == IF i > n THEN 0 ELSE i

\* index of the first digit at or after i, 0 when there is none
FirstDigitFrom(s, i) ==
    IndexOrZero(First(i, Len(s), [j \in i..Len(s) |-> IsDigit(s[j])]), Len(s))

\* first alternative of alts (in order) that occurs at index p, <<>> if none
RECURSIVE FirstAlt(_, _, _)
FirstAlt(s, p, alts) ==
    IF Len(alts) = 0 THEN <<>>
    ELSE IF StartsAtI(s, p, alts[1]) THEN SubSeq(s, p, p + Len(alts[1]) - 1)
    ELSE FirstAlt(s, p, Tail(alts))

\* index after the literal [0-9]+(?:\.[0-9]+)? whose integer digits end before j
LiteralEnd(text, j) ==
    IF j + 1 <= Len(text) /\ text[j] = "." /\ IsDigit(text[j + 1])
    THEN DigitsEnd(text, j + 1)
    ELSE j

\* the match whose literal is text[i..e-1], its integer digits ending before j.
\* n/d: parseFloat(match[1]); k: fraction digits; unit: match[2] lowercased,
\* <<>> when the group did not take part.
MatchRecord(text, alts, i, j, e) ==
    LET k == IF e > j THEN e - (j + 1) ELSE 0
    IN  [found |-> TRUE,
         n |-> ParseNat(text, i, j - 1) * Pow10(k)
                 + (IF e > j THEN ParseNat(text, j + 1, e - 1) ELSE 0),
         d |-> Pow10(k),
         k |-> k,
         unit |-> ToLowerCase(FirstAlt(text, SkipSpace(text, e), alts))]

MatchInt(text, alts, i, j) == MatchRecord(text, alts, i, j, LiteralEnd(text, j))

MatchAt(text, alts, i) ==
    IF i = 0 THEN [found |-> FALSE, n |-> 0, d |-> 1, k |-> 0, unit |-> <<>>]
    ELSE MatchInt(text, alts, i, DigitsEnd(text, i))

\* text.match(/([0-9]+(?:\.[0-9]+)?)\s*(alt1|alt2|...)?/i): the leftmost match;
\* found says whether there is one
NumberMatch(text, alts) == MatchAt(text, alts, FirstDigitFrom(text, 1))

\* is the literal n/10^k exactly representable as a double (a dyadic rational)
IsExact(n, k) == n % Pow5(k) = 0

\* a/b rounded to the nearest integer; ties go up when the double is exact,
\* and to the side the inexact double lies on otherwise
RoundDiv(a, b, exact) ==
    LET q == a \div b
        r == a % b
    IN  IF 2 * r > b THEN q + 1
        ELSE IF 2 * r < b THEN q
        ELSE IF exact \/ fpUp THEN q + 1 ELSE q

\* Math.round(a/b)
MathRound(a, b, exact) == RoundDiv(a, b, exact)

\* parseFloat((a/b).toFixed(2)), in hundredths
ToFixed2(a, b, exact) ==
    (a \div b) * 100 + RoundDiv((a % b) * 100, b, exact)

\* `${x}` for the number x = h/100
HundredthsToText(h) ==
    LET ip == h \div 100
        fp == h % 100
    IN  IF fp = 0 THEN NatToText(ip)
        ELSE IF fp % 10 = 0 THEN NatToText(ip) \o <<".">> \o NatToText(fp \div 10)
        ELSE NatToText(ip) \o <<".">> \o Pad(fp, 2)

\* String(raw ?? "")
StringOf(r) == IF r = Null THEN <<>> ELSE r

RuntimeUnits ==
    << <<"m","s">>,
       <<"m","i","l","l","i","s","e","c","o","n","d","s">>,
       <<"m","i","l","l","i","s","e","c","o","n","d">>,
       <<"s">>,
       <<"s","e","c">>,
       <<"s","e","c","o","n","d","s">>,
       <<"s","e","c","o","n","d">> >>

\* `${normalized} ms` with normalized = ms >= 10 ? Math.round(ms) : parseFloat(ms.toFixed(2)),
\* for ms = msN/d
RuntimeText(msN, d, exact) ==
    HundredthsToText(IF msN >= 10 * d THEN MathRound(msN, d, exact) * 100
                     ELSE ToFixed2(msN, d, exact))
    \o <<" ","m","s">>

\* ms without the conversion of seconds to milliseconds
RuntimeMs_noSeconds(m) == m.n

\* let ms = value; if (unit.startsWith("s")) ms = value * 1000  (numerator over m.d)
RuntimeMs(m) == IF Len(m.unit) > 0 /\ m.unit[1] = "s" THEN m.n * 1000 ELSE m.n

\* formatRuntime from the match on: if (!match) return text
RuntimeOfMatch(text, m) ==
    IF ~m.found THEN text ELSE RuntimeText(RuntimeMs(m), m.d, IsExact(m.n, m.k))

\* formatRuntime from the trimmed text on: if (!text) return ""
RuntimeOfText(text) ==
    IF Len(text) = 0 THEN <<>> ELSE RuntimeOfMatch(text, NumberMatch(text, RuntimeUnits))

formatRuntime(r) == RuntimeOfText(Trim(StringOf(r)))

MemoryUnits ==
    << <<"b">>,
       <<"b","y","t","e","s">>,
       <<"b","y","t","e">>,
       <<"k","b">>,
       <<"m","b">>,
       <<"g","b">> >>

\* mb = value * MemoryMul / MemoryDiv: the factor of the gb case
MemoryMul(m) == IF m.unit = <<"g","b">> THEN 1024 ELSE 1

\* the divisor with the kilobyte band of the heuristic starting at 10,000
MemoryDiv_geThreshold(m) ==
    IF m.unit \in {<<"b">>, <<"b","y","t","e">>, <<"b","y","t","e","s">>} THEN 1024 * 1024
    ELSE IF m.unit = <<"k","b">> THEN 1024
    ELSE IF m.unit \in {<<"g","b">>, <<"m","b">>} THEN 1
    ELSE IF m.n > 1000000 * m.d THEN 1024 * 1024
    ELSE IF m.n >= 10000 * m.d THEN 1024
    ELSE 1

\* the divisor of the switch over the unit, the default case being the
\* magnitude heuristic
MemoryDiv(m) ==
    IF m.unit \in {<<"b">>, <<"b","y","t","e">>, <<"b","y","t","e","s">>} THEN 1024 * 1024
    ELSE IF m.unit = <<"k","b">> THEN 1024
    ELSE IF m.unit \in {<<"g","b">>, <<"m","b">>} THEN 1
    ELSE IF m.n > 1000000 * m.d THEN 1024 * 1024
    ELSE IF m.n > 10000 * m.d THEN 1024
    ELSE 1

\* `${normalized} MB` with normalized = parseFloat(mb.toFixed(2)), for mb = a/b
MemoryText(a, b, exact) == HundredthsToText(ToFixed2(a, b, exact)) \o <<" ","M","B">>

\* formatMemory dropping text without a numeric token
MemoryOfMatch_dropText(text, m) ==
    IF ~m.found THEN <<>>
    ELSE MemoryText(m.n * MemoryMul(m), m.d * MemoryDiv(m), IsExact(m.n, m.k))

\* formatMemory from the match on: if (!match) return text
MemoryOfMatch(text, m) ==
    IF ~m.found THEN text
    ELSE MemoryText(m.n * MemoryMul(m), m.d * MemoryDiv(m), IsExact(m.n, m.k))

\* formatMemory from the trimmed text on: if (!text) return ""
MemoryOfText(text) ==
    IF Len(text) = 0 THEN <<>> ELSE MemoryOfMatch(text, NumberMatch(text, MemoryUnits))

formatMemory(r) == MemoryOfText(Trim(StringOf(r)))

(***************************************************************************)
(* Date.prototype.toISOString for new Date(timestamp * 1000), timestamp a  *)
(* whole number of seconds since the epoch (years 1970..9999).             *)
(***************************************************************************)
toISOString(ts) ==
    LET days == ts \div 86400
        secs == ts % 86400
        z    == days + 719468
        era  == z \div 146097
        doe  == z - era * 146097
        yoe  == (doe - doe \div 1460 + doe \div 36524 - doe \div 146096) \div 365
        doy  == doe - (365 * yoe + yoe \div 4 - yoe \div 100)
        mp   == (5 * doy + 2) \div 153
        dd   == doy - (153 * mp + 2) \div 5 + 1
        mm   == IF mp < 10 THEN mp + 3 ELSE mp - 9
        yy   == yoe + era * 400 + (IF mm <= 2 THEN 1 ELSE 0)
    IN  Pad(yy, 4) \o <<"-">> \o Pad(mm, 2) \o <<"-">> \o Pad(dd, 2) \o <<"T">>
        \o Pad(secs \div 3600, 2) \o <<":">> \o Pad((secs % 3600) \div 60, 2)
        \o <<":">> \o Pad(secs % 60, 2) \o <<".","0","0","0","Z">>

(***************************************************************************)
(* template.ts: solutions                                                  *)
(***************************************************************************)
Languages == {"en", "ru"}

SOLUTIONS_HEADERS ==
    [en |-> <<"S","o","l","u","t","i","o","n","s">>,
     ru |-> <<"CyrR","cyre","cyrsh","cyre","cyrn","cyri","cyrya">>]

Fence == <<BT, BT, BT>>

\* JavaScript truthiness of an optional string
Truthy(x) == x # Null /\ Len(x) > 0

RECURSIVE DedupeFrom(_, _, _)
DedupeFrom(solutions, i, seen) ==
    IF i > Len(solutions) THEN <<>>
    ELSE LET solution   == solutions[i]
             normalized == Trim(solution.code)
         IN  IF normalized \in seen
             THEN DedupeFrom(solutions, i + 1, seen)
             ELSE <<[solution EXCEPT !.code = normalized]>>
                  \o DedupeFrom(solutions, i + 1, seen \cup {normalized})

\* dedupeSolutionsByCode keeping the last occurrence of each code
RECURSIVE DedupeLastFrom(_, _)
DedupeLastFrom(solutions, i) ==
    IF i > Len(solutions) THEN <<>>
    ELSE LET solution   == solutions[i]
             normalized == Trim(solution.code)
         IN  IF \E j \in (i + 1)..Len(solutions) : Trim(solutions[j].code) = normalized
             THEN DedupeLastFrom(solutions, i + 1)
             ELSE <<[solution EXCEPT !.code = normalized]>> \o DedupeLastFrom(solutions, i + 1)

dedupeSolutionsByCode_keepLast(solutions) == DedupeLastFrom(solutions, 1)

dedupeSolutionsByCode(solutions) == DedupeFrom(solutions, 1, {})

\* the entries of a sequence of optional texts that are present, in order
RECURSIVE Present(_)
Present(parts) ==
    IF Len(parts) = 0 THEN <<>>
    ELSE IF parts[1] = Null THEN Present(Tail(parts))
    ELSE <<parts[1]>> \o Present(Tail(parts))

\* if (runtime) details.push(`Runtime: ${runtime}`)
RuntimeDetail(runtime) ==
    IF Len(runtime) > 0 THEN <<"R","u","n","t","i","m","e",":"," ">> \o runtime ELSE Null

\* if (memory) details.push(`Memory: ${memory}`)
MemoryDetail(memory) ==
    IF Len(memory) > 0 THEN <<"M","e","m","o","r","y",":"," ">> \o memory ELSE Null

\* the details array of formatSingleSolution with memory pushed before runtime
Details_memoryFirst(solution) ==
    Present(<<
        IF Truthy(solution.lang) THEN solution.lang ELSE Null,
        MemoryDetail(formatMemory(solution.memory)),
        RuntimeDetail(formatRuntime(solution.runtime)),
        IF solution.timestamp # 0 THEN toISOString(solution.timestamp) ELSE Null >>)

\* the details array of formatSingleSolution
Details(solution) ==
    Present(<<
        IF Truthy(solution.lang) THEN solution.lang ELSE Null,
        RuntimeDetail(formatRuntime(solution.runtime)),
        MemoryDetail(formatMemory(solution.memory)),
        IF solution.timestamp # 0 THEN toISOString(solution.timestamp) ELSE Null >>)

\* const meta = detailsLine ? `${detailsLine}\n\n` : ""
Meta(detailsLine) == IF Len(detailsLine) > 0 THEN detailsLine \o <<NL, NL>> ELSE <<>>

\* const lang = solution.lang ? solution.lang.toLowerCase() : ""
FenceLabel(solution) == IF Truthy(solution.lang) THEN ToLowerCase(solution.lang) ELSE <<>>

formatSingleSolution(solution) ==
    Meta(Join(Details(solution), <<" ","middot"," ">>))
    \o Fence \o FenceLabel(solution) \o <<NL>> \o TrimEnd(solution.code) \o <<NL>> \o Fence

\* deduped.map(formatSingleSolution)
RECURSIVE Entries(_, _)
Entries(deduped, i) ==
    IF i > Len(deduped) THEN <<>>
    ELSE <<formatSingleSolution(deduped[i])>> \o Entries(deduped, i + 1)

\* formatSolutionsSection from the deduplicated list on
SectionOf(deduped, includeHeader, language) ==
    IF Len(deduped) = 0 THEN <<>>
    ELSE IF ~includeHeader THEN Join(Entries(deduped, 1), <<NL, NL>>)
    ELSE Join(<<<<"#","#"," ">> \o SOLUTIONS_HEADERS[language],
                Join(Entries(deduped, 1), <<NL, NL>>)>>, <<NL, NL>>)

formatSolutionsSection(solutions, includeHeader, language) ==
    SectionOf(dedupeSolutionsByCode(solutions), includeHeader, language)

(***************************************************************************)
(* main.ts: the section merger                                             *)
(***************************************************************************)
\* does /##\s+(?:Solutions|Решения)/i match at index i
HeaderAt(content, i) ==
    /\ i + 2 <= Len(content)
    /\ content[i] = "#"
    /\ content[i + 1] = "#"
    /\ IsSpace(content[i + 2])
    /\ LET p == SkipSpace(content, i + 2)
       IN  \E l \in Languages : StartsAtI(content, p, SOLUTIONS_HEADERS[l])

\* content.match(regex): index of the leftmost match of
\* /##\s+(?:Solutions|Решения)[\s\S]*$/i, 0 when there is none; the match
\* runs from that index to the end of the content
SectionIndex(content) ==
    IndexOrZero(First(1, Len(content), [k \in 1..Len(content) |-> HeaderAt(content, k)]),
                Len(content))

\* index after the run of [a-z] (i flag) starting at i
LettersEnd(s, i) == First(i, Len(s), [k \in i..Len(s) |-> ~IsAZ(s[k])])

\* is there a fence (three backticks) at index i
FenceAt(s, i) == i + 2 <= Len(s) /\ s[i] = BT /\ s[i + 1] = BT /\ s[i + 2] = BT

\* smallest k >= i where a newline followed by a fence starts, 0 when none
CloseFrom(s, i) ==
    IndexOrZero(First(i, Len(s), [j \in i..Len(s) |-> s[j] = NL /\ FenceAt(s, j + 1)]), Len(s))

\* the match whose label ends before j and whose closing "\n```" starts at k
BlockTo(j, k) == [from |-> j + 1, to |-> k - 1, next |-> IF k = 0 THEN 0 ELSE k + 4]

\* the match whose label ends before j: the label must be followed by a newline
BlockFrom(s, j) == BlockTo(j, IF j <= Len(s) /\ s[j] = NL THEN CloseFrom(s, j + 1) ELSE 0)

\* the match of /```[a-z]*\n([\s\S]*?)\n```/i that starts at the fence at
\* index i: [from, to] bounds of the capture and next, the index after the
\* match; next = 0 when the pattern does not match at i
BlockAt(s, i) == BlockFrom(s, LettersEnd(s, i + 3))

\* the regex.exec loop of extractCodes, from lastIndex = i: the pattern can
\* only match where a fence starts (at), and b is its match there
RECURSIVE ExtractFrom(_, _)
RECURSIVE ExtractAt(_, _)
RECURSIVE ExtractBlock(_, _, _)
ExtractBlock(section, at, b) ==
    IF b.next = 0 THEN ExtractFrom(section, at + 1)
    ELSE <<Trim(SubSeq(section, b.from, b.to))>> \o ExtractFrom(section, b.next)

ExtractAt(section, at) ==
    IF at > Len(section) THEN <<>> ELSE ExtractBlock(section, at, BlockAt(section, at))

ExtractFrom(section, i) ==
    ExtractAt(section, First(i, Len(section), [k \in i..Len(section) |-> FenceAt(section, k)]))

extractCodes(section) == ExtractFrom(section, 1)

\* GetSubstitution of String.prototype.replace for a pattern without capture
\* groups: $$ is "$", $& the match, $` the text before it, $' the text after;
\* at is the index of the next such pattern at or after i
RECURSIVE Substitute(_, _, _, _, _)
RECURSIVE SubstituteAt(_, _, _, _, _, _)
SubstituteAt(repl, i, at, matched, before, after) ==
    IF at > Len(repl) - 1 THEN SubSeq(repl, i, Len(repl))
    ELSE SubSeq(repl, i, at - 1)
         \o (CASE repl[at + 1] = "$" -> <<"$">>
                [] repl[at + 1] = "&" -> matched
                [] repl[at + 1] = BT  -> before
                [] repl[at + 1] = "'" -> after)
         \o Substitute(repl, at + 2, matched, before, after)

Substitute(repl, i, matched, before, after) ==
    SubstituteAt(repl, i,
                 First(i, Len(repl) - 1,
                       [k \in i..(Len(repl) - 1) |->
                           repl[k] = "$" /\ repl[k + 1] \in {"$", "&", BT, "'"}]),
                 matched, before, after)

\* content.replace(regex, replacement) for the section regex, matching at index at
ReplaceSection(content, at, replacement) ==
    SubSeq(content, 1, at - 1)
    \o Substitute(replacement, 1, SubSeq(content, at, Len(content)),
                  SubSeq(content, 1, at - 1), <<>>)

\* the filter comparing the untrimmed code
RECURSIVE FilterNew_untrimmed(_, _)
FilterNew_untrimmed(solutions, existingCodes) ==
    IF Len(solutions) = 0 THEN <<>>
    ELSE IF \E c \in 1..Len(existingCodes) : existingCodes[c] = solutions[1].code
    THEN FilterNew_untrimmed(Tail(solutions), existingCodes)
    ELSE <<solutions[1]>> \o FilterNew_untrimmed(Tail(solutions), existingCodes)

\* solutions.filter(s => !existingCodes.includes(s.code.trim()))
RECURSIVE FilterNew(_, _)
FilterNew(solutions, existingCodes) ==
    IF Len(solutions) = 0 THEN <<>>
    ELSE IF \E c \in 1..Len(existingCodes) : existingCodes[c] = Trim(solutions[1].code)
    THEN FilterNew(Tail(solutions), existingCodes)
    ELSE <<solutions[1]>> \o FilterNew(Tail(solutions), existingCodes)

\* the new section appended without trimming the end of the document
AppendSection_keepTrailing(content, block) ==
    IF Len(TrimEnd(content)) > 0 THEN content \o <<NL, NL>> \o block \o <<NL>>
    ELSE block \o <<NL>>

\* const trimmed = content.trimEnd();
\* return trimmed ? `${trimmed}\n\n${block}\n` : `${block}\n`
AppendSection(content, block) ==
    IF Len(TrimEnd(content)) > 0 THEN TrimEnd(content) \o <<NL, NL>> \o block \o <<NL>>
    ELSE block \o <<NL>>

\* const existingSection = existingMatch ? existingMatch[0] : ""
ExistingSectionAt(content, at) ==
    IF at # 0 THEN SubSeq(content, at, Len(content)) ELSE <<>>

\* upsertSolutionsSection from uniqueNew on; at is the index of existingMatch,
\* 0 when there is no match
UpsertNew(content, language, at, uniqueNew) ==
    IF Len(uniqueNew) = 0 THEN content
    ELSE IF at # 0
    THEN ReplaceSection(content, at,
                        TrimEnd(ExistingSectionAt(content, at)) \o <<NL, NL>>
                        \o Trim(formatSolutionsSection(uniqueNew, FALSE, language)))
    ELSE AppendSection(content, Trim(formatSolutionsSection(uniqueNew, TRUE, language)))

\* upsertSolutionsSection from existingMatch on
UpsertAt(content, solutions, language, at) ==
    UpsertNew(content, language, at,
              FilterNew(solutions, extractCodes(ExistingSectionAt(content, at))))

upsertSolutionsSection(content, solutions, language) ==
    IF Len(solutions) = 0 THEN content
    ELSE UpsertAt(content, solutions, language, SectionIndex(content))

(***************************************************************************)
(* template.ts: the description reflow and the document composer           *)
(***************************************************************************)
\* .replace(/^[-*>+\s]+/, "")
StripMarkers(t) == SubSeq(t, SkipSet(t, 1, {"-", "*", ">", "+"} \cup WhiteSpace), Len(t))

\* .replace(/^\*\*/, "")
StripLeadingStars(a) == IF StartsAt(a, 1, <<"*", "*">>) THEN SubSeq(a, 3, Len(a)) ELSE a

\* .replace(/\*\*$/, "")
StripTrailingStars(b) ==
    IF Len(b) >= 2 /\ StartsAt(b, Len(b) - 1, <<"*", "*">>)
    THEN SubSeq(b, 1, Len(b) - 2) ELSE b

normalizeForCheck(line) == StripTrailingStars(StripLeadingStars(StripMarkers(Trim(line))))

\* /^(Input|Output|Explanation)\s*:/i
IsCodeLabel(n) ==
    \E w \in {<<"I","n","p","u","t">>, <<"O","u","t","p","u","t">>, <<"E","x","p","l","a","n","a","t","i","o","n">>} :
        StartsAtI(n, 1, w) /\ (LET p == SkipSpace(n, Len(w) + 1) IN p <= Len(n) /\ n[p] = ":")

shouldCode(line) == IsCodeLabel(normalizeForCheck(line))

\* /^Example\b/i: no word character (letter, digit, underscore) follows
IsExampleLabel(n) ==
    /\ StartsAtI(n, 1, <<"E","x","a","m","p","l","e">>)
    /\ (Len(n) = 7 \/ ~(IsAZ(n[8]) \/ IsDigit(n[8]) \/ n[8] = "_"))

isExampleHeader(line) == IsExampleLabel(normalizeForCheck(line))

\* the for loop of formatDescription over lines[i..], and the final close
RECURSIVE ReflowFrom(_, _, _)
ReflowFrom(ls, i, ic) ==
    IF i > Len(ls) THEN (IF ic THEN <<Fence>> ELSE <<>>)
    ELSE LET line == ls[i]
         IN  IF shouldCode(line)
             THEN (IF ~ic THEN <<Fence>> ELSE <<>>) \o <<Trim(line)>>
                  \o ReflowFrom(ls, i + 1, TRUE)
             ELSE IF ic /\ Len(Trim(line)) = 0
             THEN <<Fence, <<>>>> \o ReflowFrom(ls, i + 1, FALSE)
             ELSE (IF ic THEN <<Fence>> ELSE <<>>)
                  \o (IF isExampleHeader(line) THEN <<line>> ELSE <<line>>)
                  \o ReflowFrom(ls, i + 1, FALSE)

formatDescription(markdown) == Join(ReflowFrom(SplitLines(markdown), 1, FALSE), <<NL>>)

TEMPLATE_STRINGS ==
    [en |-> [descriptionHeader |-> <<"D","e","s","c","r","i","p","t","i","o","n">>,
             myIdeaHeader |-> <<"M","y"," ","i","d","e","a">>,
             myIdeaPlaceholder |-> <<"(","y","o","u","r"," ","p","l","a","n",")">>,
             optimalSolutionHeader |-> <<"O","p","t","i","m","a","l"," ","s","o","l","u","t","i","o","n">>,
             optimalSolutionPlaceholder |-> <<"(","n","o","t","e","s",")">>,
             similarHeader |-> <<"S","i","m","i","l","a","r"," ","q","u","e","s","t","i","o","n","s">>,
             solutionsHeader |-> <<"S","o","l","u","t","i","o","n","s">>,
             descriptionUnavailable |-> <<"(","d","e","s","c","r","i","p","t","i","o","n"," ","u","n","a","v","a","i","l","a","b","l","e"," ","o","r"," ","d","i","s","a","b","l","e","d",")">>],
     ru |-> [descriptionHeader |-> <<"CyrO","cyrp","cyri","cyrs","cyra","cyrn","cyri","cyre">>,
             myIdeaHeader |-> <<"CyrM","cyro","cyrya"," ","cyri","cyrd","cyre","cyrya">>,
             myIdeaPlaceholder |-> <<"(","cyrv","cyra","cyrsh"," ","cyrp","cyrl","cyra","cyrn",")">>,
             optimalSolutionHeader |-> <<"CyrO","cyrp","cyrt","cyri","cyrm","cyra","cyrl","cyrsoft","cyrn","cyro","cyre"," ","cyrr","cyre","cyrsh","cyre","cyrn","cyri","cyre">>,
             optimalSolutionPlaceholder |-> <<"(","cyrk","cyro","cyrn","cyrs","cyrp","cyre","cyrk","cyrt",")">>,
             similarHeader |-> <<"CyrP","cyro","cyrh","cyro","cyrzh","cyri","cyre"," ","cyrv","cyro","cyrp","cyrr","cyro","cyrs","cyry">>,
             solutionsHeader |-> <<"CyrR","cyre","cyrsh","cyre","cyrn","cyri","cyrya">>,
             descriptionUnavailable |-> <<"(","cyro","cyrp","cyri","cyrs","cyra","cyrn","cyri","cyre"," ","cyrn","cyre","cyrd","cyro","cyrs","cyrt","cyru","cyrp","cyrn","cyro"," ","cyri","cyrl","cyri"," ","cyro","cyrt","cyrk","cyrl","cyryu","cyrch","cyre","cyrn","cyro",")">>]]

getTemplateStrings(language) == TEMPLATE_STRINGS[language]

\* htmlToMarkdown of the Obsidian API: the converter's output for the
\* problem's HTML is an input of the model, carried in content.markdown
htmlToMarkdown(content) == content.markdown

\* the entry of one similar question
SimilarLine(q) ==
    <<"-"," ">> \o q.title \o <<" ","(">>
    \o (IF Len(q.difficulty) > 0 THEN q.difficulty ELSE <<"?">>)
    \o <<")"," ","mdash"," ","h","t","t","p","s",":","/","/","l","e","e","t","c","o","d","e",".","c","o","m","/","p","r","o","b","l","e","m","s","/">> \o q.slug \o <<"/">>

\* buildNoteContent rendering the description whether or not it is asked for
buildNoteContent_alwaysDescription(metadata, includeDescription, solutions, language) ==
    LET strings == getTemplateStrings(language)
        tags == IF Len(metadata.tags) > 0 THEN Join(metadata.tags, <<","," ">>) ELSE <<>>
        link == <<"h","t","t","p","s",":","/","/","l","e","e","t","c","o","d","e",".","c","o","m","/","p","r","o","b","l","e","m","s","/">> \o metadata.slug \o <<"/">>
        frontmatter == Join(<<
            <<"-","-","-">>,
            <<"t","i","t","l","e",":"," ">> \o metadata.title,
            <<"n","u","m","b","e","r",":"," ">> \o StringOf(metadata.number),
            <<"d","i","f","f","i","c","u","l","t","y",":"," ">> \o metadata.difficulty,
            <<"t","a","g","s",":"," ","[">> \o tags \o <<"]">>,
            <<"l","i","n","k",":"," ">> \o link,
            <<"-","-","-">> >>, <<NL>>)
        descriptionBlock ==
            IF metadata.content.present
            THEN formatDescription(Trim(htmlToMarkdown(metadata.content)))
            ELSE strings.descriptionUnavailable
        parts == <<
            frontmatter,
            <<"#"," ">> \o metadata.title,
            <<>>,
            <<"#","#"," ">> \o strings.descriptionHeader,
            descriptionBlock,
            <<>>,
            <<"#","#"," ">> \o strings.myIdeaHeader,
            strings.myIdeaPlaceholder,
            <<>>,
            <<"#","#"," ">> \o strings.optimalSolutionHeader,
            strings.optimalSolutionPlaceholder,
            <<>> >>
        similarBlock == Join([i \in 1..Len(metadata.similarQuestions) |->
                                  SimilarLine(metadata.similarQuestions[i])], <<NL>>)
        withSimilar == IF Len(metadata.similarQuestions) > 0
                       THEN parts \o <<<<"#","#"," ">> \o strings.similarHeader, similarBlock, <<>>>>
                       ELSE parts
        withSolutions == IF Len(solutions) > 0
                         THEN withSimilar \o <<formatSolutionsSection(solutions, TRUE, language)>>
                         ELSE withSimilar
    IN  Join(withSolutions, <<NL>>)

\* buildNoteContent pushing the solutions section before the similar questions
buildNoteContent_solutionsFirst(metadata, includeDescription, solutions, language) ==
    LET strings == getTemplateStrings(language)
        tags == IF Len(metadata.tags) > 0 THEN Join(metadata.tags, <<","," ">>) ELSE <<>>
        link == <<"h","t","t","p","s",":","/","/","l","e","e","t","c","o","d","e",".","c","o","m","/","p","r","o","b","l","e","m","s","/">> \o metadata.slug \o <<"/">>
        frontmatter == Join(<<
            <<"-","-","-">>,
            <<"t","i","t","l","e",":"," ">> \o metadata.title,
            <<"n","u","m","b","e","r",":"," ">> \o StringOf(metadata.number),
            <<"d","i","f","f","i","c","u","l","t","y",":"," ">> \o metadata.difficulty,
            <<"t","a","g","s",":"," ","[">> \o tags \o <<"]">>,
            <<"l","i","n","k",":"," ">> \o link,
            <<"-","-","-">> >>, <<NL>>)
        descriptionBlock ==
            IF includeDescription /\ metadata.content.present
            THEN formatDescription(Trim(htmlToMarkdown(metadata.content)))
            ELSE strings.descriptionUnavailable
        parts == <<
            frontmatter,
            <<"#"," ">> \o metadata.title,
            <<>>,
            <<"#","#"," ">> \o strings.descriptionHeader,
            descriptionBlock,
            <<>>,
            <<"#","#"," ">> \o strings.myIdeaHeader,
            strings.myIdeaPlaceholder,
            <<>>,
            <<"#","#"," ">> \o strings.optimalSolutionHeader,
            strings.optimalSolutionPlaceholder,
            <<>> >>
        similarBlock == Join([i \in 1..Len(metadata.similarQuestions) |->
                                  SimilarLine(metadata.similarQuestions[i])], <<NL>>)
        withSolutions == IF Len(solutions) > 0
                         THEN parts \o <<formatSolutionsSection(solutions, TRUE, language)>>
                         ELSE parts
        withSimilar == IF Len(metadata.similarQuestions) > 0
                       THEN withSolutions \o <<<<"#","#"," ">> \o strings.similarHeader, similarBlock, <<>>>>
                       ELSE withSolutions
    IN  Join(withSimilar, <<NL>>)

buildNoteContent(metadata, includeDescription, solutions, language) ==
    LET strings == getTemplateStrings(language)
        tags == IF Len(metadata.tags) > 0 THEN Join(metadata.tags, <<","," ">>) ELSE <<>>
        link == <<"h","t","t","p","s",":","/","/","l","e","e","t","c","o","d","e",".","c","o","m","/","p","r","o","b","l","e","m","s","/">> \o metadata.slug \o <<"/">>
        frontmatter == Join(<<
            <<"-","-","-">>,
            <<"t","i","t","l","e",":"," ">> \o metadata.title,
            <<"n","u","m","b","e","r",":"," ">> \o StringOf(metadata.number),
            <<"d","i","f","f","i","c","u","l","t","y",":"," ">> \o metadata.difficulty,
            <<"t","a","g","s",":"," ","[">> \o tags \o <<"]">>,
            <<"l","i","n","k",":"," ">> \o link,
            <<"-","-","-">> >>, <<NL>>)
        descriptionBlock ==
            IF includeDescription /\ metadata.content.present
            THEN formatDescription(Trim(htmlToMarkdown(metadata.content)))
            ELSE strings.descriptionUnavailable
        parts == <<
            frontmatter,
            <<"#"," ">> \o metadata.title,
            <<>>,
            <<"#","#"," ">> \o strings.descriptionHeader,
            descriptionBlock,
            <<>>,
            <<"#","#"," ">> \o strings.myIdeaHeader,
            strings.myIdeaPlaceholder,
            <<>>,
            <<"#","#"," ">> \o strings.optimalSolutionHeader,
            strings.optimalSolutionPlaceholder,
            <<>> >>
        similarBlock == Join([i \in 1..Len(metadata.similarQuestions) |->
                                  SimilarLine(metadata.similarQuestions[i])], <<NL>>)
        withSimilar == IF Len(metadata.similarQuestions) > 0
                       THEN parts \o <<<<"#","#"," ">> \o strings.similarHeader, similarBlock, <<>>>>
                       ELSE parts
        withSolutions == IF Len(solutions) > 0
                         THEN withSimilar \o <<formatSolutionsSection(solutions, TRUE, language)>>
                         ELSE withSimilar
    IN  Join(withSolutions, <<NL>>)

(***************************************************************************)
(* Inputs                                                                  *)
(***************************************************************************)
MaxMerges == 1      \* merges performed on one note
MaxSolutions == 2   \* length of a fetched solution list

None == <<>>

\* sequences over set S of length at most n
RECURSIVE SeqsUpTo(_, _)
SeqsUpTo(S, n) ==
    IF n = 0 THEN {<<>>}
    ELSE LET shorter == SeqsUpTo(S, n - 1)
         IN  shorter \cup {Append(q, x) : q \in {r \in shorter : Len(r) = n - 1}, x \in S}

SolPy3 ==
    [id |-> <<"1">>, code |-> <<"x">>, lang |-> <<"p","y","t","h","o","n","3">>, runtime |-> <<"5","6"," ","m","s">>,
     memory |-> <<"1","7",".","5"," ","M","B">>, timestamp |-> 1700000000]

SolPad ==
    [id |-> <<"2">>, code |-> <<" ","x","\n">>, lang |-> <<"c","p","p">>, runtime |-> <<"6","0"," ","m","s">>,
     memory |-> Null, timestamp |-> 0]

SolY ==
    [id |-> <<"3">>, code |-> <<"y">>, lang |-> <<"J","a","v","a">>, runtime |-> Null,
     memory |-> <<"4","2","1","0","0"," ","K","B">>, timestamp |-> 0]

SolDollar ==
    [id |-> <<"4">>, code |-> <<"$","&">>, lang |-> Null, runtime |-> Null,
     memory |-> Null, timestamp |-> 0]

SolutionPool == {SolPy3, SolPad, SolY, SolDollar}

\* a fetched list holds distinct submissions (distinct ids); two of them may
\* still carry the same code
SolutionLists == {q \in SeqsUpTo(SolutionPool, MaxSolutions) : \A i, j \in 1..Len(q) : i # j => q[i] # q[j]}

MetaFull ==
    [title |-> <<"T","w","o"," ","S","u","m">>, number |-> <<"1">>, slug |-> <<"t","w","o","-","s","u","m">>, difficulty |-> <<"E","a","s","y">>,
     tags |-> <<<<"A","r","r","a","y">>, <<"H","a","s","h"," ","T","a","b","l","e">>>>,
     content |-> [present |-> TRUE, markdown |-> <<"A","d","d",".","\n","\n","*","*","I","n","p","u","t",":","*","*"," ","a","\n","*","*","O","u","t","p","u","t",":","*","*"," ","b","\n","\n">>],
     similarQuestions |-> <<[title |-> <<"3","S","u","m">>, slug |-> <<"3","s","u","m">>, difficulty |-> <<"M","e","d","i","u","m">>],
                            [title |-> <<"4","S","u","m">>, slug |-> <<"4","s","u","m">>, difficulty |-> <<>>]>>]

MetaBare ==
    [title |-> <<"L","R","U">>, number |-> Null, slug |-> <<"l","r","u">>, difficulty |-> <<"U","n","k","n","o","w","n">>,
     tags |-> <<>>,
     content |-> [present |-> FALSE, markdown |-> <<>>],
     similarQuestions |-> <<>>]

\* notes a merge can find in the vault: empty, blank, free text, a note with a
\* Russian section and trailing blank lines, and notes written by buildNoteContent
InitDocs ==
    { <<>>,
      <<" ","\n">>,
      <<"n","o","t","e","s","\n","\n">>,
      <<"a","\n","#","#"," ","CyrR","cyre","cyrsh","cyre","cyrn","cyri","cyrya","\n","\n","bt","bt","bt","c","p","p","\n","x","\n","bt","bt","bt","\n","\n">>,
      buildNoteContent(MetaBare, FALSE, <<SolPy3>>, "en"),
      buildNoteContent(MetaBare, FALSE, <<SolY>>, "ru") }

(***************************************************************************)
(* Spec: a note and the merges applied to it (upsertSolutionsSection)      *)
(***************************************************************************)
Init ==
    /\ mode = "merge"
    /\ op = "init"
    /\ doc \in InitDocs
    /\ prevDoc = doc
    /\ lastSols = <<>>
    /\ lastLang = "en"
    /\ lastMeta = None
    /\ merges = 0
    /\ raw = None
    /\ result = None
    /\ fpUp = TRUE
    /\ inp = None
    /\ lines = <<>>
    /\ out = <<>>
    /\ inCode = FALSE
    /\ pos = 0
    /\ submissions = <<>>
    /\ results = <<>>
    /\ fetched = 0
    /\ pc = <<>>
    /\ contents = <<>>
    /\ resolved = <<>>
    /\ notices = <<>>
    /\ server = <<>>
    /\ limit = 0
    /\ vault = <<>>
    /\ normalizedFolder = <<>>
    /\ requestedPath = <<>>
    /\ counter = 0
    /\ candidate = <<>>

\* const updated = upsertSolutionsSection(content, resolved, language);
\* vault.modify(file, updated)
\* The list is any list the function accepts, the empty one included (the
\* import handler itself returns before the call when the list is empty).
Upsert(solutions, language) ==
    /\ mode = "merge"
    /\ merges < MaxMerges
    /\ doc' = upsertSolutionsSection(doc, solutions, language)
    /\ prevDoc' = doc
    /\ lastSols' = solutions
    /\ lastLang' = language
    /\ merges' = merges + 1
    /\ op' = "upsert"
    /\ UNCHANGED <<mode, lastMeta, raw, result, fpUp, inp,
                   lines, out, inCode, pos,
                   submissions, results, fetched,
                   pc, contents, resolved, notices,
                   server, limit,
                   vault, normalizedFolder, requestedPath, counter, candidate>>

Spec == Init /\ [][(\E solutions \in SolutionLists, language \in Languages : Upsert(solutions, language))]_vars

(***************************************************************************)
(* SpecRender: a note is written by buildNoteContent and the solutions it  *)
(* was built from are then merged into it again                            *)
(***************************************************************************)
InitRender ==
    /\ mode = "render"
    /\ op = "init"
    /\ doc = Null
    /\ prevDoc = Null
    /\ lastSols = <<>>
    /\ lastLang = "en"
    /\ lastMeta = None
    /\ merges = 0
    /\ raw = None
    /\ result = None
    /\ fpUp = TRUE
    /\ inp = None
    /\ lines = <<>>
    /\ out = <<>>
    /\ inCode = FALSE
    /\ pos = 0
    /\ submissions = <<>>
    /\ results = <<>>
    /\ fetched = 0
    /\ pc = <<>>
    /\ contents = <<>>
    /\ resolved = <<>>
    /\ notices = <<>>
    /\ server = <<>>
    /\ limit = 0
    /\ vault = <<>>
    /\ normalizedFolder = <<>>
    /\ requestedPath = <<>>
    /\ counter = 0
    /\ candidate = <<>>

\* const noteContent = buildNoteContent(metadata, includeDescription, solutions, language);
\* vault.create(finalPath, noteContent)
Build(metadata, includeDescription, solutions, language) ==
    /\ mode = "render"
    /\ op = "init"
    /\ doc' = buildNoteContent(metadata, includeDescription, solutions, language)
    /\ prevDoc' = doc
    /\ lastSols' = solutions
    /\ lastLang' = language
    /\ lastMeta' = [metadata |-> metadata, includeDescription |-> includeDescription]
    /\ op' = "build"
    /\ UNCHANGED <<mode, merges, raw, result, fpUp, inp,
                   lines, out, inCode, pos,
                   submissions, results, fetched,
                   pc, contents, resolved, notices,
                   server, limit,
                   vault, normalizedFolder, requestedPath, counter, candidate>>

\* upsertSolutionsSection(content, resolved, language) with the list the note was built from
Reimport(language) ==
    /\ mode = "render"
    /\ op = "build"
    /\ doc' = upsertSolutionsSection(doc, lastSols, language)
    /\ prevDoc' = doc
    /\ lastLang' = language
    /\ merges' = merges + 1
    /\ op' = "reimport"
    /\ UNCHANGED <<mode, lastSols, lastMeta, raw, result, fpUp, inp,
                   lines, out, inCode, pos,
                   submissions, results, fetched,
                   pc, contents, resolved, notices,
                   server, limit,
                   vault, normalizedFolder, requestedPath, counter, candidate>>

SpecRender == InitRender /\ [][
        \/ \E metadata \in ({MetaFull, MetaBare}), includeDescription \in BOOLEAN,
              solutions \in SolutionLists, language \in Languages :
                Build(metadata, includeDescription, solutions, language)
        \/ \E language \in Languages : Reimport(language)
    ]_vars

(***************************************************************************)
(* SpecNorm: formatRuntime and formatMemory applied to free-form inputs    *)
(***************************************************************************)

Paddings == { [lead |-> <<>>, trail |-> <<>>], [lead |-> <<" ">>, trail |-> <<" ","\n">>] }

NumberInputs(fn, lits, units) ==
    { [fn |-> fn, kind |-> "number", lead |-> pad.lead, pre |-> pre, int |-> lit[1],
       frac |-> lit[2], ws |-> ws, unit |-> unit, trail |-> pad.trail] :
        pad \in Paddings, pre \in {<<>>, <<"<">>}, lit \in lits, ws \in {<<>>, <<" ">>},
        unit \in units }

TextInputs ==
    { [fn |-> fn, kind |-> kind, lead |-> pad.lead, pre |-> pre, int |-> <<>>,
       frac |-> <<>>, ws |-> <<>>, unit |-> <<>>, trail |-> pad.trail] :
        fn \in {"runtime", "memory"}, kind \in {"absent", "text"}, pad \in Paddings,
        pre \in {<<>>, <<"N","/","A">>, <<"f","a","s","t">>, <<"-">>} }

\* the value of the literal of a number input, times 10^(number of fraction digits)
LitN(i) == ParseNat(i.int \o i.frac, 1, Len(i.int) + Len(i.frac))

LitD(i) == Pow10(Len(i.frac))

\* gigabyte values are kept within the 31 bits of the model's integers
NormInputs ==
    NumberInputs("runtime",
        ({ <<<<"5","6">>, <<>>>>, <<<<"1">>, <<"2">>>>, <<<<"3">>, <<"4","5","6">>>>, <<<<"0">>, <<"5">>>>, <<<<"9">>, <<"9","9","5">>>>,
           <<<<"1","0">>, <<>>>>, <<<<"9">>, <<"9","9">>>>, <<<<"0">>, <<"0","1","4","5">>>>, <<<<"1","2">>, <<"3","4","5">>>>, <<<<"3">>, <<"4","5","5">>>>,
           <<<<"0">>, <<>>>>, <<<<"1","2","3","4">>, <<>>>>, <<<<"0">>, <<"1","2","5">>>>, <<<<"1","0">>, <<"5">>>> })
        ,
            ({ <<>>, <<"m","s">>, <<"M","S">>, <<"m","i","l","l","i","s","e","c","o","n","d">>, <<"m","i","l","l","i","s","e","c","o","n","d","s">>,
               <<"s">>, <<"S">>, <<"s","e","c">>, <<"s","e","c","o","n","d">>, <<"s","e","c","o","n","d","s">>, <<"S","e","c","o","n","d","s">> })
            )
    \cup { i \in NumberInputs("memory",
        ({ <<<<"4","2">>, <<"1">>>>, <<<<"1","0","2","4">>, <<>>>>, <<<<"5","0","0","0","0">>, <<>>>>, <<<<"1","0","0","0","0">>, <<>>>>,
           <<<<"1","0","0","0","0","0","0">>, <<>>>>, <<<<"1","0","0","0","0","0","1">>, <<>>>>, <<<<"1","0","0","0","1">>, <<>>>>, <<<<"2">>, <<>>>>,
           <<<<"1","0","4","8","5","7","6">>, <<>>>>, <<<<"1","2","8">>, <<>>>>, <<<<"0">>, <<"5">>>>, <<<<"2","0","0","0","0","0","0">>, <<>>>>,
           <<<<"1","7">>, <<"5">>>> })
        , ({ <<>>, <<"b">>, <<"B">>, <<"b","y","t","e">>, <<"b","y","t","e","s">>, <<"k","b">>, <<"K","B">>, <<"m","b">>, <<"M","B">>, <<"g","b">>, <<"G","B">> })) :
             ToLowerCase(i.unit) = <<"g","b">> => LitN(i) <= 10000 * LitD(i) }
    \cup TextInputs

RawOf(i) ==
    IF i.kind = "absent" THEN Null
    ELSE i.lead \o i.pre \o i.int
         \o (IF Len(i.frac) > 0 THEN <<".">> \o i.frac ELSE <<>>)
         \o i.ws \o i.unit \o i.trail

InitNorm ==
    /\ mode = "norm"
    /\ op = "init"
    /\ doc = Null
    /\ prevDoc = Null
    /\ lastSols = <<>>
    /\ lastLang = "en"
    /\ lastMeta = None
    /\ merges = 0
    /\ inp \in NormInputs
    /\ raw = RawOf(inp)
    /\ result = None
    /\ fpUp \in BOOLEAN
    /\ lines = <<>>
    /\ out = <<>>
    /\ inCode = FALSE
    /\ pos = 0
    /\ submissions = <<>>
    /\ results = <<>>
    /\ fetched = 0
    /\ pc = <<>>
    /\ contents = <<>>
    /\ resolved = <<>>
    /\ notices = <<>>
    /\ server = <<>>
    /\ limit = 0
    /\ vault = <<>>
    /\ normalizedFolder = <<>>
    /\ requestedPath = <<>>
    /\ counter = 0
    /\ candidate = <<>>

\* const runtime = formatRuntime(solution.runtime)
CallFormatRuntime ==
    /\ mode = "norm"
    /\ op = "init"
    /\ inp.fn = "runtime"
    /\ result' = formatRuntime(raw)
    /\ op' = "formatRuntime"
    /\ UNCHANGED <<mode, doc, prevDoc, lastSols, lastLang, lastMeta, merges, raw, fpUp, inp,
                   lines, out, inCode, pos,
                   submissions, results, fetched,
                   pc, contents, resolved, notices,
                   server, limit,
                   vault, normalizedFolder, requestedPath, counter, candidate>>

\* const memory = formatMemory(solution.memory)
CallFormatMemory ==
    /\ mode = "norm"
    /\ op = "init"
    /\ inp.fn = "memory"
    /\ result' = formatMemory(raw)
    /\ op' = "formatMemory"
    /\ UNCHANGED <<mode, doc, prevDoc, lastSols, lastLang, lastMeta, merges, raw, fpUp, inp,
                   lines, out, inCode, pos,
                   submissions, results, fetched,
                   pc, contents, resolved, notices,
                   server, limit,
                   vault, normalizedFolder, requestedPath, counter, candidate>>

SpecNorm == InitNorm /\ [][(CallFormatRuntime \/ CallFormatMemory)]_vars

(***************************************************************************)
(* SpecDedupe: dedupeSolutionsByCode applied to solution lists             *)
(***************************************************************************)
MaxDedupeLen == 4   \* length of a list handed to dedupeSolutionsByCode

InitDedupe ==
    /\ mode = "dedupe"
    /\ op = "init"
    /\ doc = Null
    /\ prevDoc = Null
    /\ lastSols \in SeqsUpTo(SolutionPool, MaxDedupeLen)
    /\ lastLang = "en"
    /\ lastMeta = None
    /\ merges = 0
    /\ raw = None
    /\ result = None
    /\ fpUp = TRUE
    /\ inp = lastSols
    /\ lines = <<>>
    /\ out = <<>>
    /\ inCode = FALSE
    /\ pos = 0
    /\ submissions = <<>>
    /\ results = <<>>
    /\ fetched = 0
    /\ pc = <<>>
    /\ contents = <<>>
    /\ resolved = <<>>
    /\ notices = <<>>
    /\ server = <<>>
    /\ limit = 0
    /\ vault = <<>>
    /\ normalizedFolder = <<>>
    /\ requestedPath = <<>>
    /\ counter = 0
    /\ candidate = <<>>

\* const deduped = dedupeSolutionsByCode(solutions)
CallDedupe ==
    /\ mode = "dedupe"
    /\ op = "init"
    /\ result' = dedupeSolutionsByCode(lastSols)
    /\ op' = "dedupe"
    /\ UNCHANGED <<mode, doc, prevDoc, lastSols, lastLang, lastMeta, merges, raw, fpUp, inp,
                   lines, out, inCode, pos,
                   submissions, results, fetched,
                   pc, contents, resolved, notices,
                   server, limit,
                   vault, normalizedFolder, requestedPath, counter, candidate>>

SpecDedupe == InitDedupe /\ [][(CallDedupe)]_vars

(***************************************************************************)
(* Properties                                                              *)
(***************************************************************************)
\* the text matched by the section regex, empty when there is no match
ExistingSection(content) ==
    IF SectionIndex(content) = 0 THEN <<>>
    ELSE SubSeq(content, SectionIndex(content), Len(content))

\* the codes extractCodes finds in the solutions section of content
ExistingCodes(content) ==
    LET codes == extractCodes(ExistingSection(content))
    IN  {codes[i] : i \in 1..Len(codes)}

\* does lit occur in s
Contains(s, lit) == \E i \in 1..Len(s) : StartsAt(s, i, lit)

\* number of fences in s
FenceCount(s) == Cardinality({i \in 1..Len(s) : FenceAt(s, i)})

\* number of fenced blocks of s whose content is exactly code: an opening
\* fence line, the code, and a closing fence at the start of the next line
BlocksWithCode(s, code) ==
    Cardinality({i \in 1..Len(s) :
        /\ FenceAt(s, i)
        /\ StartsAt(s, First(i, Len(s), [k \in i..Len(s) |-> s[k] = NL]),
                    <<NL>> \o code \o <<NL>> \o Fence)})

\* number of lines of s that are a solutions header: "##", whitespace, and a
\* known header label in any letter case, at the start of a line
HeaderLineCount(s) ==
    Cardinality({i \in 1..Len(s) : (i = 1 \/ s[i - 1] = NL) /\ HeaderAt(s, i)})

\* C1: merging the same solution list into a document twice gives the same
\* document as merging it once, for every document, locale and list
C1_MergeIdempotent ==
    (mode = "merge" /\ op = "upsert")
        => upsertSolutionsSection(doc, lastSols, lastLang) = doc

\* C2: merging a non-empty list S into the note buildNoteContent rendered from
\* S returns the note unchanged
C2_RenderThenMergeUnchanged ==
    (mode = "render" /\ op = "reimport" /\ Len(lastSols) > 0) => doc = prevDoc

\* C3: when the list is empty, or every trimmed code of the list is among the
\* codes extracted from the existing section, the merge returns the document
\* character for character
C3_MergeNoOp ==
    (mode = "merge" /\ op = "upsert"
        /\ \A i \in 1..Len(lastSols) : Trim(lastSols[i].code) \in ExistingCodes(prevDoc))
        => doc = prevDoc

\* C3 witness: a no-op merge of a solution whose code is in the section and
\* whose runtime appears nowhere in the document
C3_Witness ==
    /\ mode = "merge" /\ op = "upsert"
    /\ lastSols = <<SolPad>>
    /\ Trim(SolPad.code) \in ExistingCodes(prevDoc)
    /\ ~Contains(prevDoc, formatRuntime(SolPad.runtime))
    /\ doc = prevDoc

\* C4: merging <<a, b>> where the section holds exactly one block with a's
\* code x and none with b's code y (x # y after trimming) adds exactly one
\* block, for y, and leaves x in exactly one block
C4_OnlyUnseenAppended ==
    (mode = "merge" /\ op = "upsert" /\ Len(lastSols) = 2
        /\ Trim(lastSols[1].code) # Trim(lastSols[2].code)
        /\ BlocksWithCode(ExistingSection(prevDoc), Trim(lastSols[1].code)) = 1
        /\ BlocksWithCode(ExistingSection(prevDoc), Trim(lastSols[2].code)) = 0)
        => /\ BlocksWithCode(doc, Trim(lastSols[1].code)) = 1
           /\ BlocksWithCode(doc, Trim(lastSols[2].code)) = 1
           /\ FenceCount(doc) = FenceCount(prevDoc) + 2

\* the blocks formatSolutionsSection renders for a list, joined by blank lines
RenderedBlocks(solutions) ==
    LET deduped == dedupeSolutionsByCode(solutions)
    IN  Join([i \in 1..Len(deduped) |-> formatSingleSolution(deduped[i])], <<NL, NL>>)

\* C5: when no section is found and the list is not empty, the result is the
\* document without its trailing whitespace, one blank line (none when nothing
\* is left of the document), the header line of the passed locale, a blank
\* line, the rendered blocks and a final newline
C5_NewSectionAppend ==
    (mode = "merge" /\ op = "upsert" /\ SectionIndex(prevDoc) = 0 /\ Len(lastSols) > 0)
        => doc = (IF Len(TrimEnd(prevDoc)) > 0 THEN TrimEnd(prevDoc) \o <<NL, NL>> ELSE <<>>)
                 \o <<"#", "#", " ">> \o SOLUTIONS_HEADERS[lastLang] \o <<NL, NL>>
                 \o RenderedBlocks(lastSols) \o <<NL>>

\* C5 witness: a Russian section appended to a note that ended in blank lines
C5_Witness ==
    /\ mode = "merge" /\ op = "upsert"
    /\ SectionIndex(prevDoc) = 0
    /\ Len(prevDoc) > Len(TrimEnd(prevDoc))
    /\ Len(TrimEnd(prevDoc)) > 0
    /\ lastLang = "ru"
    /\ Len(lastSols) = 2
    /\ SectionIndex(doc) = Len(TrimEnd(prevDoc)) + 3

\* C6: a note that starts with at most one solutions header line has at most
\* one after any sequence of merges
C6_SingleHeaderLine == mode = "merge" => HeaderLineCount(doc) <= 1

\* the indices of the first occurrences, by trimmed code, in a solution list
FirstOccurrences(solutions) ==
    {i \in 1..Len(solutions) :
        \A j \in 1..(i - 1) : Trim(solutions[j].code) # Trim(solutions[i].code)}

\* C7: dedupeSolutionsByCode returns the first occurrences by trimmed code, in
\* input order, each with its code trimmed and its other fields kept, and
\* leaves the input list as it was
C7_DedupeFirstOccurrences ==
    (mode = "dedupe" /\ op = "dedupe") =>
        LET firsts == FirstOccurrences(lastSols)
        IN  /\ lastSols = inp
            /\ Len(result) = Cardinality(firsts)
            /\ \A i \in firsts :
                 result[Cardinality({j \in firsts : j <= i})]
                     = [id |-> lastSols[i].id, code |-> Trim(lastSols[i].code),
                        lang |-> lastSols[i].lang, runtime |-> lastSols[i].runtime,
                        memory |-> lastSols[i].memory, timestamp |-> lastSols[i].timestamp]

\* C7 witness: codes " x\n", y, x, $& are reduced to x, y, $&, and the kept x
\* carries the metadata of the first entry, not of the later one
C7_Witness ==
    /\ mode = "dedupe" /\ op = "dedupe"
    /\ lastSols = <<SolPad, SolY, SolPy3, SolDollar>>
    /\ result = <<[SolPad EXCEPT !.code = SolPy3.code], SolY, SolDollar>>

\* the number h/100 the result text of a normalizer shows, -1 when the text
\* is not a canonical number followed by the suffix
ShownHundredths(text, suffix) ==
    LET m == NumberMatch(text, <<>>)
        h == m.n * (100 \div m.d)
    IN  IF m.found /\ m.k <= 2 /\ text = HundredthsToText(h) \o suffix THEN h ELSE -1

\* is h/100 a nearest multiple of 1/step to a/b (step 1: integers, step 100: hundredths)
IsNearest(h, a, b, step) ==
    LET u == 100 \div step
        q == a \div b
        r == a % b
        hr == h - q * 100
    IN  /\ h % u = 0
        /\ 2 * (hr * b - 100 * r) <= u * b
        /\ 2 * (100 * r - hr * b) <= u * b

SecondsFamily == {<<"s">>, <<"s","e","c">>, <<"s","e","c","o","n","d">>, <<"s","e","c","o","n","d","s">>}

\* C8: formatRuntime returns "<n> ms" where the millisecond value is the
\* literal times 1000 for a seconds-family unit and the literal otherwise,
\* and n is that value rounded to an integer when it is at least 10 and to
\* two decimals, trailing zeros dropped, when it is below 10
C8_RuntimeNormalized ==
    (mode = "norm" /\ op = "formatRuntime" /\ inp.kind = "number") =>
        LET ms == IF ToLowerCase(inp.unit) \in SecondsFamily THEN LitN(inp) * 1000
                  ELSE LitN(inp)
            h  == ShownHundredths(result, <<" ","m","s">>)
        IN  /\ h >= 0
            /\ IsNearest(h, ms, LitD(inp), IF ms >= 10 * LitD(inp) THEN 1 ELSE 100)
            /\ (raw = <<"5","6"," ","m","s">> => result = <<"5","6"," ","m","s">>)
            /\ (raw = <<"1",".","2"," ","s">> => result = <<"1","2","0","0"," ","m","s">>)
            /\ (raw = <<"3",".","4","5","6"," ","m","s">> => result = <<"3",".","4","6"," ","m","s">>)

\* C8 witness: a fractional number of seconds whose millisecond value is a tie
C8_Witness ==
    /\ mode = "norm" /\ op = "formatRuntime"
    /\ raw = <<"0",".","0","1","4","5"," ","s","e","c">>
    /\ result \in {<<"1","4"," ","m","s">>, <<"1","5"," ","m","s">>}

\* C9: formatMemory returns the megabyte value rounded to two decimals with
\* the suffix " MB": bytes are divided by 1024*1024, kb by 1024, gb multiplied
\* by 1024, mb kept; without a unit a value above 1,000,000 counts as bytes,
\* above 10,000 as kilobytes, anything else as megabytes
C9_MemoryNormalized ==
    (mode = "norm" /\ op = "formatMemory" /\ inp.kind = "number") =>
        LET u   == ToLowerCase(inp.unit)
            v   == LitN(inp)
            d   == LitD(inp)
            mul == IF u = <<"g","b">> THEN 1024 ELSE 1
            div == IF u \in {<<"b">>, <<"b","y","t","e">>, <<"b","y","t","e","s">>} THEN 1024 * 1024
                   ELSE IF u = <<"k","b">> THEN 1024
                   ELSE IF u \in {<<"m","b">>, <<"g","b">>} THEN 1
                   ELSE IF v > 1000000 * d THEN 1024 * 1024
                   ELSE IF v > 10000 * d THEN 1024
                   ELSE 1
            h   == ShownHundredths(result, <<" ","M","B">>)
        IN  /\ h >= 0
            /\ IsNearest(h, v * mul, d * div, 100)
            /\ (raw = <<"5","0","0","0","0">> => result = <<"4","8",".","8","3"," ","M","B">>)
            /\ (raw = <<"1","0","2","4"," ","K","B">> => result = <<"1"," ","M","B">>)
            /\ (raw = <<"1","0","0","0","0">> => result = <<"1","0","0","0","0"," ","M","B">>)
            /\ (raw = <<"1","0","0","0","0","0","0">> => result = <<"9","7","6",".","5","6"," ","M","B">>)

\* C9 witness: a unit-less value in the kilobyte band
C9_Witness ==
    /\ mode = "norm" /\ op = "formatMemory"
    /\ raw = <<" ","<","1","0","0","0","1"," ","\n">>
    /\ result = <<"9",".","7","7"," ","M","B">>

\* C10: formatRuntime and formatMemory return the empty string for absent or
\* blank input, the trimmed input for text without a numeric token, and
\* never the empty string for input that is not blank
C10_NormalizerFallback ==
    (mode = "norm" /\ op \in {"formatRuntime", "formatMemory"}) =>
        /\ (inp.kind = "absent" \/ (inp.kind = "text" /\ Len(inp.pre) = 0)) => result = <<>>
        /\ (inp.kind = "text" /\ Len(inp.pre) > 0) => result = inp.pre
        /\ inp.kind = "number" => Len(result) > 0

\* C10 witness: padded text without a number comes back trimmed
C10_Witness ==
    /\ mode = "norm" /\ op = "formatMemory"
    /\ raw = <<" ","N","/","A"," ","\n">>
    /\ result = <<"N","/","A">>

(***************************************************************************)
(* SpecBlock: formatSingleSolution applied to one solution                 *)
(***************************************************************************)

\* solutions with each optional field absent, blank or present; a timestamp
\* of 0 stands for a missing one (item.timestamp ? Number(...) : undefined)
InitBlock ==
    /\ mode = "block"
    /\ op = "init"
    /\ doc = Null
    /\ prevDoc = Null
    /\ lastSols = <<>>
    /\ lastLang = "en"
    /\ lastMeta = None
    /\ merges = 0
    /\ raw = None
    /\ result = None
    /\ fpUp = TRUE
    /\ inp \in
        ([id : {<<"1">>},
          code : {<<"x">>, <<" ","x","\n">>},
          lang : {Null, <<>>, <<"J","a","v","a">>, <<"p","y","t","h","o","n","3">>},
          runtime : {Null, <<" ">>, <<"5","6"," ","m","s">>, <<"N","/","A">>},
          memory : {Null, <<"1","7",".","5"," ","M","B">>, <<"4","2","1","0","0"," ","K","B">>},
          timestamp : {0, 86400, 1700000000}])
    /\ lines = <<>>
    /\ out = <<>>
    /\ inCode = FALSE
    /\ pos = 0
    /\ submissions = <<>>
    /\ results = <<>>
    /\ fetched = 0
    /\ pc = <<>>
    /\ contents = <<>>
    /\ resolved = <<>>
    /\ notices = <<>>
    /\ server = <<>>
    /\ limit = 0
    /\ vault = <<>>
    /\ normalizedFolder = <<>>
    /\ requestedPath = <<>>
    /\ counter = 0
    /\ candidate = <<>>

\* deduped.map(formatSingleSolution), one element
CallFormatSingleSolution ==
    /\ mode = "block"
    /\ op = "init"
    /\ result' = formatSingleSolution(inp)
    /\ op' = "formatSingleSolution"
    /\ UNCHANGED <<mode, doc, prevDoc, lastSols, lastLang, lastMeta, merges, raw, fpUp, inp,
                   lines, out, inCode, pos,
                   submissions, results, fetched,
                   pc, contents, resolved, notices,
                   server, limit,
                   vault, normalizedFolder, requestedPath, counter, candidate>>

SpecBlock == InitBlock /\ [][CallFormatSingleSolution]_vars

\* two metadata parts with the separator between them when both are there
Sep(a, b) == IF Len(a) > 0 /\ Len(b) > 0 THEN a \o <<" ","middot"," ">> \o b ELSE a \o b

\* a metadata part: the prefix and the value, or nothing when the value is blank
Part(prefix, value) == IF Len(value) > 0 THEN prefix \o value ELSE <<>>

\* the label of a solution, empty when there is none
LabelOf(solution) == IF solution.lang = Null THEN <<>> ELSE solution.lang

\* the instant of a solution, empty when there is no timestamp
InstantOf(solution) ==
    IF solution.timestamp = 0 THEN <<>> ELSE toISOString(solution.timestamp)

\* the metadata line the block is expected to carry
ExpectedLine(solution) ==
    Sep(Sep(Sep(LabelOf(solution),
                Part(<<"R","u","n","t","i","m","e",":"," ">>, formatRuntime(solution.runtime))),
            Part(<<"M","e","m","o","r","y",":"," ">>, formatMemory(solution.memory))),
        InstantOf(solution))

\* the fenced part the block is expected to end with
ExpectedFence(solution) ==
    Fence \o ToLowerCase(LabelOf(solution)) \o <<NL>> \o TrimEnd(solution.code) \o <<NL>> \o Fence

\* C11: a rendered block is the metadata line (label, "Runtime: ", "Memory: ",
\* ISO instant, in that order, joined by " · ", each part exactly when its
\* datum is there) and a blank line, followed by the fence tagged with the
\* lowercased label; with no part the block starts with the fence
C11_BlockShape ==
    (mode = "block" /\ op = "formatSingleSolution") =>
        /\ Len(ExpectedLine(inp)) = 0 => result = ExpectedFence(inp)
        /\ Len(ExpectedLine(inp)) > 0 =>
               result = ExpectedLine(inp) \o <<NL, NL>> \o ExpectedFence(inp)
        /\ inp.timestamp = 1700000000 =>
               Contains(result, <<"2","0","2","3","-","1","1","-","1","4","T","2","2",":","1","3",":","2","0",".","0","0","0","Z">>)
        /\ inp.timestamp = 86400 => Contains(result, <<"1","9","7","0","-","0","1","-","0","2","T","0","0",":","0","0",":","0","0",".","0","0","0","Z">>)

\* C11 witness: a block with a label, no runtime, a memory and a timestamp
C11_Witness ==
    /\ mode = "block" /\ op = "formatSingleSolution"
    /\ inp.lang = <<"J","a","v","a">> /\ inp.runtime = Null /\ inp.code = <<" ","x","\n">>
    /\ result = <<"J","a","v","a"," ","middot"," ","M","e","m","o","r","y",":"," ","4","1",".","1","1"," ","M","B"," ","middot"," ","2","0","2","3","-","1","1","-","1","4","T","2","2",":","1","3",":","2","0",".","0","0","0","Z","\n","\n","bt","bt","bt","j","a","v","a","\n"," ","x","\n","bt","bt","bt">>

(***************************************************************************)
(* SpecReflow: formatDescription run line by line over a description       *)
(***************************************************************************)
MaxReflowLines == 3   \* number of lines of a description handed to formatDescription

\* descriptions of up to MaxReflowLines lines: example fields plain, bold and
\* quoted, an example header, a blank line, prose, and a fence line already there
InitReflow ==
    /\ mode = "reflow"
    /\ op = "init"
    /\ doc = Null
    /\ prevDoc = Null
    /\ lastSols = <<>>
    /\ lastLang = "en"
    /\ lastMeta = None
    /\ merges = 0
    /\ inp \in
        (SeqsUpTo({ <<"I","n","p","u","t",":"," ","a">>,
                    <<"*","*","O","u","t","p","u","t",":","*","*"," ","b">>,
                    <<" ",">"," ","E","x","p","l","a","n","a","t","i","o","n"," ",":"," ","c"," ">>,
                    <<"*","*","E","x","a","m","p","l","e"," ","1",":","*","*">>,
                    <<>>,
                    <<"t","e","x","t">>,
                    Fence },
                  MaxReflowLines) \ {<<>>})
    /\ raw = Join(inp, <<NL>>)
    /\ result = None
    /\ fpUp = TRUE
    /\ lines = <<>>
    /\ out = <<>>
    /\ inCode = FALSE
    /\ pos = 0
    /\ submissions = <<>>
    /\ results = <<>>
    /\ fetched = 0
    /\ pc = <<>>
    /\ contents = <<>>
    /\ resolved = <<>>
    /\ notices = <<>>
    /\ server = <<>>
    /\ limit = 0
    /\ vault = <<>>
    /\ normalizedFolder = <<>>
    /\ requestedPath = <<>>
    /\ counter = 0
    /\ candidate = <<>>

\* const lines = markdown.split("\n"); const out = []; let inCode = false
ReflowSplit ==
    /\ mode = "reflow"
    /\ op = "init"
    /\ lines' = SplitLines(raw)
    /\ out' = <<>>
    /\ inCode' = FALSE
    /\ pos' = 0
    /\ op' = "split"
    /\ UNCHANGED <<mode, doc, prevDoc, lastSols, lastLang, lastMeta, merges, raw, result, fpUp, inp,
                   submissions, results, fetched,
                   pc, contents, resolved, notices,
                   server, limit,
                   vault, normalizedFolder, requestedPath, counter, candidate>>

\* the body of if (shouldCode(line)) opening a fence before every qualifying line
PushCode_alwaysOpen(o, line, ic) == Append(o, Fence) \o <<Trim(line)>>

\* the body of if (shouldCode(line)): open a fence unless one is open, push the trimmed line
PushCode(o, line, ic) == (IF ~ic THEN Append(o, Fence) ELSE o) \o <<Trim(line)>>

\* the rest of the loop body, for a line that does not qualify
PushOther(o, line, ic) ==
    IF ic /\ Len(Trim(line)) = 0 THEN o \o <<Fence, <<>>>>
    ELSE (IF ic THEN Append(o, Fence) ELSE o)
         \o (IF isExampleHeader(line) THEN <<line>> ELSE <<line>>)

\* one iteration of for (const line of lines)
ReflowLine ==
    /\ mode = "reflow"
    /\ op \in {"split", "line"}
    /\ pos < Len(lines)
    /\ out' = IF shouldCode(lines[pos + 1]) THEN PushCode(out, lines[pos + 1], inCode)
              ELSE PushOther(out, lines[pos + 1], inCode)
    /\ inCode' = shouldCode(lines[pos + 1])
    /\ pos' = pos + 1
    /\ op' = "line"
    /\ UNCHANGED <<mode, doc, prevDoc, lastSols, lastLang, lastMeta, merges, raw, result, fpUp, inp,
                   lines, submissions, results, fetched,
                   pc, contents, resolved, notices,
                   server, limit,
                   vault, normalizedFolder, requestedPath, counter, candidate>>

\* if (inCode) out.push(fence); return out.join("\n")
ReflowEnd ==
    /\ mode = "reflow"
    /\ op \in {"split", "line"}
    /\ pos = Len(lines)
    /\ out' = IF inCode THEN Append(out, Fence) ELSE out
    /\ result' = Join(out', <<NL>>)
    /\ op' = "done"
    /\ UNCHANGED <<mode, doc, prevDoc, lastSols, lastLang, lastMeta, merges, raw, fpUp, inp,
                   lines, inCode, pos,
                   submissions, results, fetched,
                   pc, contents, resolved, notices,
                   server, limit,
                   vault, normalizedFolder, requestedPath, counter, candidate>>

SpecReflow == InitReflow /\ [][(ReflowSplit \/ ReflowLine \/ ReflowEnd)]_vars

\* does line i of the description start a run of qualifying lines
RunStart(i) == shouldCode(lines[i]) /\ (i = 1 \/ ~shouldCode(lines[i - 1]))

\* does line i of the description end a run of qualifying lines
RunEnd(i) == shouldCode(lines[i]) /\ (i = Len(lines) \/ ~shouldCode(lines[i + 1]))

\* where line i of the description is expected in the output: after one line
\* for each line before it, one fence for each run started at or before it
\* and one fence for each run ended before it
OutIndex(i) ==
    i + Cardinality({a \in 1..i : RunStart(a)}) + Cardinality({b \in 1..(i - 1) : RunEnd(b)})

\* C12: in the output of formatDescription every maximal run of qualifying
\* lines sits, trimmed and contiguous, between one opening fence just before
\* its first line and one closing fence just after its last line, and no
\* other line is added
C12_RunsGrouped ==
    (mode = "reflow" /\ op = "done") =>
        /\ result = formatDescription(raw)
        /\ Len(out) = Len(lines) + 2 * Cardinality({a \in 1..Len(lines) : RunStart(a)})
        /\ \A i \in 1..Len(lines) :
               shouldCode(lines[i]) =>
                   /\ out[OutIndex(i)] = Trim(lines[i])
                   /\ RunStart(i) => out[OutIndex(i) - 1] = Fence
                   /\ ~RunStart(i) => OutIndex(i) = OutIndex(i - 1) + 1
                   /\ RunEnd(i) => out[OutIndex(i) + 1] = Fence

\* C12 witness: Input followed by Output gives one fenced block with both lines
C12_Witness ==
    /\ mode = "reflow" /\ op = "done"
    /\ raw = <<"I","n","p","u","t",":"," ","a","\n","*","*","O","u","t","p","u","t",":","*","*"," ","b">>
    /\ result = <<"bt","bt","bt","\n","I","n","p","u","t",":"," ","a","\n","*","*","O","u","t","p","u","t",":","*","*"," ","b","\n","bt","bt","bt">>

\* is this output line a fence line
IsFenceLine(l) == StartsAt(Trim(l), 1, Fence)

\* number of fence lines of o before index k
FencesBefore(o, k) == Cardinality({j \in 1..(k - 1) : IsFenceLine(o[j])})

\* C19: in the output of formatDescription the fence lines pair up as open
\* and close (their number is even, so the last opened fence is closed) and
\* every Input/Output/Explanation line lies inside a pair (an odd number of
\* fence lines comes before it)
C19_FencesWellFormed ==
    (mode = "reflow" /\ op = "done") =>
        /\ FencesBefore(out, Len(out) + 1) % 2 = 0
        /\ \A k \in 1..Len(out) : shouldCode(out[k]) => FencesBefore(out, k) % 2 = 1

\* C20: the loop iteration that processes an Example header line emits the
\* line unchanged and leaves inCode as it was
C20_ExampleKeepsState ==
    [][(mode = "reflow" /\ pos' = pos + 1 /\ isExampleHeader(lines[pos + 1])) =>
           /\ out'[Len(out')] = lines[pos + 1]
           /\ inCode' = inCode]_vars

(***************************************************************************)
(* SpecCompose: buildNoteContent applied to metadata and solutions         *)
(***************************************************************************)

\* const preparedSolutions = Array.isArray(solutions) ? solutions : solutions ? [solutions] : []
preparedSolutions(solutions) == solutions.value

\* arguments of buildNoteContent: number present or missing; zero, one, two
\* tags; content missing, blank, with an example; zero, one, two similar
\* questions; solutions null, one solution, or an array
InitCompose ==
    /\ mode = "compose"
    /\ op = "init"
    /\ doc = Null
    /\ prevDoc = Null
    /\ lastSols = <<>>
    /\ lastLang = "en"
    /\ lastMeta = None
    /\ merges = 0
    /\ raw = None
    /\ result = None
    /\ fpUp = TRUE
    /\ inp \in
        ([metadata : [title : {MetaFull.title}, number : {Null, MetaFull.number},
                      slug : {MetaFull.slug}, difficulty : {MetaFull.difficulty},
                      tags : {<<>>, <<MetaFull.tags[1]>>, MetaFull.tags},
                      content : {MetaBare.content, [present |-> TRUE, markdown |-> <<" ", NL>>],
                                 MetaFull.content},
                      similarQuestions : {<<>>, <<MetaFull.similarQuestions[1]>>,
                                          MetaFull.similarQuestions}],
          includeDescription : BOOLEAN,
          solutions : {[kind |-> "null", value |-> <<>>], [kind |-> "one", value |-> <<SolPy3>>]}
                      \cup {[kind |-> "array", value |-> q] :
                                q \in SeqsUpTo({SolPy3, SolPad}, MaxSolutions)},
          language : Languages])
    /\ lines = <<>>
    /\ out = <<>>
    /\ inCode = FALSE
    /\ pos = 0
    /\ submissions = <<>>
    /\ results = <<>>
    /\ fetched = 0
    /\ pc = <<>>
    /\ contents = <<>>
    /\ resolved = <<>>
    /\ notices = <<>>
    /\ server = <<>>
    /\ limit = 0
    /\ vault = <<>>
    /\ normalizedFolder = <<>>
    /\ requestedPath = <<>>
    /\ counter = 0
    /\ candidate = <<>>

\* buildNoteContent(metadata, includeDescription, solutions, language)
Compose ==
    /\ mode = "compose"
    /\ op = "init"
    /\ result' = buildNoteContent(inp.metadata, inp.includeDescription,
                                  preparedSolutions(inp.solutions), inp.language)
    /\ op' = "buildNoteContent"
    /\ UNCHANGED <<mode, doc, prevDoc, lastSols, lastLang, lastMeta, merges, raw, fpUp, inp,
                   lines, out, inCode, pos,
                   submissions, results, fetched,
                   pc, contents, resolved, notices,
                   server, limit,
                   vault, normalizedFolder, requestedPath, counter, candidate>>

SpecCompose == InitCompose /\ [][Compose]_vars

\* is this line a second-level header
IsH2(l) == StartsAt(l, 1, <<"#","#"," ">>)

\* the second-level header lines of a document, in order
H2Lines(content) == SelectSeq(SplitLines(content), IsH2)

\* the header line of a section
H2(label) == <<"#","#"," ">> \o label

\* the headers a composed document is expected to have, in order
ExpectedH2(strings, similar, supplied) ==
    <<H2(strings.descriptionHeader), H2(strings.myIdeaHeader), H2(strings.optimalSolutionHeader)>>
    \o (IF similar > 0 THEN <<H2(strings.similarHeader)>> ELSE <<>>)
    \o (IF supplied > 0 THEN <<H2(strings.solutionsHeader)>> ELSE <<>>)

\* the tags of the frontmatter, comma-joined
RECURSIVE TagList(_)
TagList(tags) ==
    IF Len(tags) = 0 THEN <<>>
    ELSE IF Len(tags) = 1 THEN tags[1]
    ELSE tags[1] \o <<","," ">> \o TagList(Tail(tags))

\* the first eight lines a composed document is expected to have
ExpectedHead(metadata) ==
    << <<"-","-","-">>,
       <<"t","i","t","l","e",":"," ">> \o metadata.title,
       <<"n","u","m","b","e","r",":"," ">> \o (IF metadata.number = Null THEN <<>> ELSE metadata.number),
       <<"d","i","f","f","i","c","u","l","t","y",":"," ">> \o metadata.difficulty,
       <<"t","a","g","s",":"," ","[">> \o TagList(metadata.tags) \o <<"]">>,
       <<"l","i","n","k",":"," ","h","t","t","p","s",":","/","/","l","e","e","t","c","o","d","e",".","c","o","m","/","p","r","o","b","l","e","m","s","/">> \o metadata.slug \o <<"/">>,
       <<"-","-","-">>,
       <<"#"," ">> \o metadata.title >>

\* C13: the composed document starts with the frontmatter block (title,
\* number, difficulty, bracketed comma-joined tags, link from the slug) and
\* the '# title' heading, and its '##' sections are, in this order,
\* Description, My idea, Optimal solution, Similar questions if there are
\* any, and the solutions section if solutions were supplied, which is last
C13_SectionOrder ==
    (mode = "compose" /\ op = "buildNoteContent") =>
        /\ SubSeq(SplitLines(result), 1, 8) = ExpectedHead(inp.metadata)
        /\ H2Lines(result) = ExpectedH2(TEMPLATE_STRINGS[inp.language],
                                        Len(inp.metadata.similarQuestions),
                                        Len(inp.solutions.value))

\* C13 witness: the Two Sum document with similar questions and one solution
C13_Witness ==
    /\ mode = "compose" /\ op = "buildNoteContent"
    /\ inp.language = "en" /\ ~inp.includeDescription
    /\ inp.solutions = [kind |-> "one", value |-> <<SolPy3>>]
    /\ Len(inp.metadata.similarQuestions) = 2
    /\ result = <<"-","-","-","\n","t","i","t","l","e",":"," ","T","w","o"," ","S","u","m","\n","n","u","m","b","e","r",":"," ","1","\n","d","i","f","f","i","c","u","l","t","y",":"," ","E","a","s","y","\n","t","a","g","s",":"," ","[","A","r","r","a","y",","," ","H","a","s","h"," ","T","a","b","l","e","]","\n","l","i","n","k",":"," ","h","t","t","p","s",":","/","/","l","e","e","t","c","o","d","e",".","c","o","m","/","p","r","o","b","l","e","m","s","/","t","w","o","-","s","u","m","/","\n","-","-","-","\n","#"," ","T","w","o"," ","S","u","m","\n","\n","#","#"," ","D","e","s","c","r","i","p","t","i","o","n","\n","(","d","e","s","c","r","i","p","t","i","o","n"," ","u","n","a","v","a","i","l","a","b","l","e"," ","o","r"," ","d","i","s","a","b","l","e","d",")","\n","\n","#","#"," ","M","y"," ","i","d","e","a","\n","(","y","o","u","r"," ","p","l","a","n",")","\n","\n","#","#"," ","O","p","t","i","m","a","l"," ","s","o","l","u","t","i","o","n","\n","(","n","o","t","e","s",")","\n","\n","#","#"," ","S","i","m","i","l","a","r"," ","q","u","e","s","t","i","o","n","s","\n","-"," ","3","S","u","m"," ","(","M","e","d","i","u","m",")"," ","mdash"," ","h","t","t","p","s",":","/","/","l","e","e","t","c","o","d","e",".","c","o","m","/","p","r","o","b","l","e","m","s","/","3","s","u","m","/","\n","-"," ","4","S","u","m"," ","(","?",")"," ","mdash"," ","h","t","t","p","s",":","/","/","l","e","e","t","c","o","d","e",".","c","o","m","/","p","r","o","b","l","e","m","s","/","4","s","u","m","/","\n","\n","#","#"," ","S","o","l","u","t","i","o","n","s","\n","\n","p","y","t","h","o","n","3"," ","middot"," ","R","u","n","t","i","m","e",":"," ","5","6"," ","m","s"," ","middot"," ","M","e","m","o","r","y",":"," ","1","7",".","5"," ","M","B"," ","middot"," ","2","0","2","3","-","1","1","-","1","4","T","2","2",":","1","3",":","2","0",".","0","0","0","Z","\n","\n","bt","bt","bt","p","y","t","h","o","n","3","\n","x","\n","bt","bt","bt">>

\* is l one of the lines ls
HasLine(ls, l) == \E k \in 1..Len(ls) : ls[k] = l

\* index of the last second-level header line of a sequence of lines, 0 if none
LastH2(ls) ==
    IF \E k \in 1..Len(ls) : IsH2(ls[k])
    THEN CHOOSE k \in 1..Len(ls) : IsH2(ls[k]) /\ \A j \in (k + 1)..Len(ls) : ~IsH2(ls[j])
    ELSE 0

\* does some line after line k hold text
BodyAfter(ls, k) == k > 0 /\ \E j \in (k + 1)..Len(ls) : Len(Trim(ls[j])) > 0

\* the headers and bodies expected of the lines ls composed from input i
ComposedLinesOk(ls, i, strings) ==
    /\ HasLine(ls, H2(strings.similarHeader)) <=> Len(i.metadata.similarQuestions) > 0
    /\ HasLine(ls, H2(SOLUTIONS_HEADERS[i.language]))
           <=> (i.solutions.kind # "null" /\ Len(i.solutions.value) > 0)
    /\ BodyAfter(ls, LastH2(ls))
    /\ (~i.includeDescription \/ ~i.metadata.content.present) =>
           /\ ls[10] = H2(strings.descriptionHeader)
           /\ ls[11] = strings.descriptionUnavailable
           /\ ls[12] = <<>>

\* C14: buildNoteContent returns a document for zero tags, zero similar
\* questions and zero or null solutions; the Similar-questions header is
\* there exactly when there is a similar question and the solutions header
\* exactly when a solution is supplied; the last section header has a body;
\* the Description body is the locale's placeholder when inclusion is
\* disabled or the content is missing
C14_EmptyInputs ==
    (mode = "compose" /\ op = "buildNoteContent") =>
        /\ Len(result) > 0
        /\ ComposedLinesOk(SplitLines(result), inp, TEMPLATE_STRINGS[inp.language])

\* C14 witness: no tags, no number, no content, no similar question, null solutions
C14_Witness ==
    /\ mode = "compose" /\ op = "buildNoteContent"
    /\ inp.solutions.kind = "null" /\ inp.includeDescription
    /\ result = <<"-","-","-","\n","t","i","t","l","e",":"," ","T","w","o"," ","S","u","m","\n","n","u","m","b","e","r",":"," ","\n","d","i","f","f","i","c","u","l","t","y",":"," ","E","a","s","y","\n","t","a","g","s",":"," ","[","]","\n","l","i","n","k",":"," ","h","t","t","p","s",":","/","/","l","e","e","t","c","o","d","e",".","c","o","m","/","p","r","o","b","l","e","m","s","/","t","w","o","-","s","u","m","/","\n","-","-","-","\n","#"," ","T","w","o"," ","S","u","m","\n","\n","#","#"," ","D","e","s","c","r","i","p","t","i","o","n","\n","(","d","e","s","c","r","i","p","t","i","o","n"," ","u","n","a","v","a","i","l","a","b","l","e"," ","o","r"," ","d","i","s","a","b","l","e","d",")","\n","\n","#","#"," ","M","y"," ","i","d","e","a","\n","(","y","o","u","r"," ","p","l","a","n",")","\n","\n","#","#"," ","O","p","t","i","m","a","l"," ","s","o","l","u","t","i","o","n","\n","(","n","o","t","e","s",")","\n">>

(***************************************************************************)
(* SpecFetch: fetchAcceptedSolutions over a list of accepted submissions   *)
(* and the responses of the server to the detail requests                  *)
(***************************************************************************)
MaxSubmissions == 3   \* number of submissions of the account for the problem

\* entries of the list fetchAcceptedSubmissions returns; a missing timestamp is 0
Submission1 ==
    [id |-> <<"1","1">>, lang |-> <<"p","y","t","h","o","n","3">>, runtime |-> <<"5","6"," ","m","s">>,
     memory |-> <<"1","7",".","5"," ","M","B">>, timestamp |-> 1700000000]

Submission2 == [id |-> <<"1","2">>, lang |-> Null, runtime |-> Null, memory |-> Null, timestamp |-> 0]

\* .filter((s) => s?.statusDisplay === "Accepted")
RECURSIVE Accepted(_)
Accepted(items) ==
    IF Len(items) = 0 THEN <<>>
    ELSE (IF items[1].statusDisplay = "Accepted" THEN <<items[1]>> ELSE <<>>) \o Accepted(Tail(items))

\* one item put into a list that is newest first, behind the items that
\* are not older (Array.prototype.sort is stable)
RECURSIVE InsertNewestFirst(_, _)
InsertNewestFirst(item, sorted) ==
    IF Len(sorted) = 0 THEN <<item>>
    ELSE IF sorted[1].timestamp >= item.timestamp
         THEN <<sorted[1]>> \o InsertNewestFirst(item, Tail(sorted))
         ELSE <<item>> \o sorted

\* .sort((a, b) => (Number(b.timestamp) || 0) - (Number(a.timestamp) || 0))
RECURSIVE SortNewestFirst(_)
SortNewestFirst(items) ==
    IF Len(items) = 0 THEN <<>>
    ELSE InsertNewestFirst(items[Len(items)], SortNewestFirst(SubSeq(items, 1, Len(items) - 1)))

\* the list fetchAcceptedSubmissions returns for the answer to its request
\* questionSubmissionList(offset: 0, limit: $limit, ...) answers with the
\* first limit submissions of the list of the server, whatever their status
fetchAcceptedSubmissions(all, lim) ==
    LET listed == SubSeq(all, 1, IF Len(all) < lim THEN Len(all) ELSE lim)
        accepted == SortNewestFirst(Accepted(listed))
    IN [i \in 1..Len(accepted) |->
           [id |-> accepted[i].id, lang |-> accepted[i].lang, runtime |-> accepted[i].runtime,
            memory |-> accepted[i].memory, timestamp |-> accepted[i].timestamp]]

NoTimestamp == 0 - 1   \* details.timestamp null or undefined

\* submissionDetails objects of a response
DetailsNoCode ==
    [id |-> Null, code |-> Null, lang |-> <<"c","p","p">>, runtimeDisplay |-> Null, runtime |-> Null,
     memoryDisplay |-> Null, memory |-> Null, timestamp |-> NoTimestamp]

DetailsBare == [DetailsNoCode EXCEPT !.code = <<"x">>, !.lang = Null]

\* responses to a detail request: a refusal, a body that is not JSON, a payload
\* without submissionDetails, details without code, with empty code, with code
DetailResponses ==
    { [status |-> 403, body |-> "json", details |-> <<>>],
      [status |-> 200, body |-> "invalid", details |-> <<>>],
      [status |-> 200, body |-> "json", details |-> <<>>],
      [status |-> 200, body |-> "json", details |-> <<DetailsNoCode>>],
      [status |-> 200, body |-> "json", details |-> <<[DetailsNoCode EXCEPT !.code = <<>>]>>],
      [status |-> 200, body |-> "json", details |-> <<DetailsBare>>],
      [status |-> 200, body |-> "json", details |-> <<
          ([id |-> <<"2","1">>, code |-> <<"y">>, lang |-> <<"J","a","v","a">>, runtimeDisplay |-> <<"3"," ","m","s">>,
            runtime |-> <<"3">>, memoryDisplay |-> Null, memory |-> <<"4","2","0","0","0","0","0","0">>,
            timestamp |-> 1700000001])
          >>] }

\* a ?? b
Nullish(a, b) == IF a = Null THEN b ELSE a

\* detailResponse.json ?? JSON.parse(detailResponse.text) throws on a non-200 answer too
Throws_non200(response) == response.status # 200 \/ response.body = "invalid"

\* detailResponse.json ?? JSON.parse(detailResponse.text) throws on a body that is not JSON
Throws(response) == response.status = 200 /\ response.body = "invalid"

\* the object fetchSubmissionDetails returns for details that carry code
SolutionOf(submission, details) ==
    [id |-> Nullish(details.id, submission.id),
     code |-> details.code,
     lang |-> Nullish(details.lang, submission.lang),
     runtime |-> Nullish(details.runtimeDisplay, Nullish(details.runtime, submission.runtime)),
     memory |-> Nullish(details.memoryDisplay, Nullish(details.memory, submission.memory)),
     timestamp |-> IF details.timestamp = NoTimestamp THEN submission.timestamp
                   ELSE details.timestamp]

\* fetchSubmissionDetails for a response it can read: no solution (null) or one
fetchSubmissionDetails(submission, response) ==
    IF response.status # 200 THEN <<>>
    ELSE IF Len(response.details) = 0 THEN <<>>
    ELSE IF ~Truthy(response.details[1].code) THEN <<>>
    ELSE <<SolutionOf(submission, response.details[1])>>

\* if (detail?.code) results.push(detail)
PushDetail(rs, detail) ==
    IF Len(detail) > 0 /\ Truthy(detail[1].code) THEN Append(rs, detail[1]) ELSE rs

\* const { limit = 20 } = options, and { limit: 1 } of fetchLatestAcceptedSolution
\* the submissions of the answer to the list request: the two above as
\* accepted ones and a newer one that was not accepted
InitFetch ==
    /\ mode = "fetch"
    /\ op = "init"
    /\ doc = Null
    /\ prevDoc = Null
    /\ lastSols = <<>>
    /\ lastLang = "en"
    /\ lastMeta = None
    /\ merges = 0
    /\ raw = None
    /\ result = None
    /\ fpUp = TRUE
    /\ inp = <<>>
    /\ lines = <<>>
    /\ out = <<>>
    /\ inCode = FALSE
    /\ pos = 0
    /\ submissions = <<>>
    /\ results = <<>>
    /\ fetched = 0
    /\ pc = <<>>
    /\ contents = <<>>
    /\ resolved = <<>>
    /\ notices = <<>>
    /\ server \in SeqsUpTo(
        ({ [id |-> Submission1.id, statusDisplay |-> "Accepted", lang |-> Submission1.lang,
            runtime |-> Submission1.runtime, memory |-> Submission1.memory, timestamp |-> Submission1.timestamp],
           [id |-> Submission2.id, statusDisplay |-> "Accepted", lang |-> Null, runtime |-> Null,
            memory |-> Null, timestamp |-> 0],
           [id |-> <<"1","3">>, statusDisplay |-> "Wrong Answer", lang |-> <<"c","p","p">>, runtime |-> <<"N","/","A">>,
            memory |-> <<"N","/","A">>, timestamp |-> 1700000002] })
        , MaxSubmissions)
    /\ limit \in ({1, 20})
    /\ vault = <<>>
    /\ normalizedFolder = <<>>
    /\ requestedPath = <<>>
    /\ counter = 0
    /\ candidate = <<>>

\* const submissions = await fetchAcceptedSubmissions(titleSlug, headers, limit)
FetchSubmissions ==
    /\ mode = "fetch"
    /\ op = "init"
    /\ submissions' = fetchAcceptedSubmissions(server, limit)
    /\ op' = "listed"
    /\ UNCHANGED <<mode, doc, prevDoc, lastSols, lastLang, lastMeta, merges, raw, result, fpUp, inp,
                   lines, out, inCode, pos, results, fetched,
                   pc, contents, resolved, notices,
                   server, limit,
                   vault, normalizedFolder, requestedPath, counter, candidate>>

\* if (!submissions.length) return []
ReturnEmpty ==
    /\ mode = "fetch"
    /\ op = "listed"
    /\ Len(submissions) = 0
    /\ result' = <<>>
    /\ op' = "returned"
    /\ UNCHANGED <<mode, doc, prevDoc, lastSols, lastLang, lastMeta, merges, raw, fpUp, inp,
                   lines, out, inCode, pos, submissions, results, fetched,
                   pc, contents, resolved, notices,
                   server, limit,
                   vault, normalizedFolder, requestedPath, counter, candidate>>

\* one iteration of for (const submission of submissions); inp is the
\* sequence of responses the server has given
FetchDetail(response) ==
    /\ mode = "fetch"
    /\ op \in {"listed", "detail"}
    /\ fetched < Len(submissions)
    /\ inp' = Append(inp, response)
    /\ IF Throws(response)
       THEN op' = "rejected" /\ UNCHANGED <<results, fetched,
                   vault, normalizedFolder, requestedPath, counter, candidate>>
       ELSE /\ results' = PushDetail(results, fetchSubmissionDetails(submissions[fetched + 1], response))
            /\ fetched' = fetched + 1
            /\ op' = "detail"
    /\ UNCHANGED <<mode, doc, prevDoc, lastSols, lastLang, lastMeta, merges, raw, result, fpUp,
                   lines, out, inCode, pos, submissions,
                   pc, contents, resolved, notices,
                   server, limit,
                   vault, normalizedFolder, requestedPath, counter, candidate>>

\* return results
ReturnResults ==
    /\ mode = "fetch"
    /\ op \in {"listed", "detail"}
    /\ Len(submissions) > 0
    /\ fetched = Len(submissions)
    /\ result' = results
    /\ op' = "returned"
    /\ UNCHANGED <<mode, doc, prevDoc, lastSols, lastLang, lastMeta, merges, raw, fpUp, inp,
                   lines, out, inCode, pos, submissions, results, fetched,
                   pc, contents, resolved, notices,
                   server, limit,
                   vault, normalizedFolder, requestedPath, counter, candidate>>

\* fetchLatestAcceptedSolution on the list its call of fetchAcceptedSolutions
\* returned: solutions[0] ?? null
ReturnLatest ==
    /\ mode = "fetch"
    /\ op = "returned"
    /\ limit = 1
    /\ result' = IF Len(result) = 0 THEN <<>> ELSE <<result[1]>>
    /\ op' = "latest"
    /\ UNCHANGED <<mode, doc, prevDoc, lastSols, lastLang, lastMeta, merges, raw, fpUp, inp,
                   lines, out, inCode, pos, submissions, results, fetched,
                   pc, contents, resolved, notices,
                   server, limit,
                   vault, normalizedFolder, requestedPath, counter, candidate>>

SpecFetch == InitFetch /\ [][
        \/ FetchSubmissions
        \/ ReturnEmpty
        \/ \E response \in DetailResponses : FetchDetail(response)
        \/ ReturnResults
        \/ ReturnLatest
    ]_vars

\* a response whose details carry code
Usable(response) ==
    /\ response.status = 200 /\ response.body = "json"
    /\ Len(response.details) = 1
    /\ response.details[1].code # Null /\ Len(response.details[1].code) > 0

\* the codes of the usable responses, in order
RECURSIVE UsableCodes(_)
UsableCodes(responses) ==
    IF Len(responses) = 0 THEN <<>>
    ELSE (IF Usable(responses[1]) THEN <<responses[1].details[1].code>> ELSE <<>>)
         \o UsableCodes(Tail(responses))

\* C15: every entry of the list fetchAcceptedSolutions returns has a
\* non-empty code; the list holds, in order, one entry for each submission
\* whose detail response is a 200 with code, so a non-200 response or
\* details without code drop only that submission; and such a response
\* never ends the retrieval
C15_OnlyEntriesWithCode ==
    mode = "fetch" =>
        /\ op = "returned" =>
               /\ \A i \in 1..Len(result) : result[i].code # Null /\ Len(result[i].code) > 0
               /\ [i \in 1..Len(result) |-> result[i].code] = UsableCodes(inp)
               /\ Len(inp) = Len(submissions)
        /\ op = "rejected" =>
               /\ inp[Len(inp)].status = 200
               /\ inp[Len(inp)].body = "invalid"

\* C15 witness: a refused request, then details with code, then details
\* without code: one entry, for the second submission
C15_Witness ==
    /\ mode = "fetch" /\ op = "returned"
    /\ submissions = <<Submission1, Submission1, Submission2>>
    /\ inp[1].status = 403
    /\ inp[2].details = <<DetailsBare>>
    /\ inp[3].details = <<DetailsNoCode>>
    /\ result = <<[id |-> <<"1","1">>, code |-> <<"x">>, lang |-> <<"p","y","t","h","o","n","3">>, runtime |-> <<"5","6"," ","m","s">>,
                  memory |-> <<"1","7",".","5"," ","M","B">>, timestamp |-> 1700000000]>>

\* C22: fetchLatestAcceptedSolution returns null only when every accepted
\* submission of the account for the problem was asked for its details and
\* none of the answers carried code (a submission that was never asked for
\* may be one whose code can be retrieved); and the entry it returns is
\* made from the accepted submission with the greatest timestamp
C22_LatestAccepted ==
    (mode = "fetch" /\ op = "latest") =>
        LET acc == {i \in 1..Len(server) : server[i].statusDisplay = "Accepted"}
        IN /\ result = <<>> =>
                  /\ Len(inp) = Cardinality(acc)
                  /\ \A k \in 1..Len(inp) : ~Usable(inp[k])
           /\ result # <<>> =>
                  \E i \in acc :
                      /\ \A j \in acc : server[j].timestamp <= server[i].timestamp
                      /\ Usable(inp[1])
                      /\ result[1] = SolutionOf(server[i], inp[1].details[1])

\* the solutions of a list whose trimmed code is not among the codes of the
\* existing section of content
RECURSIVE UnseenIn(_, _)
UnseenIn(solutions, codes) ==
    IF Len(solutions) = 0 THEN <<>>
    ELSE (IF Trim(solutions[1].code) \in codes THEN <<>> ELSE <<solutions[1]>>)
         \o UnseenIn(Tail(solutions), codes)

\* C16: when a section is found and the list holds a solution that is new,
\* the result is the text before the section header, the existing section
\* without its trailing whitespace, one blank line, and the rendered new
\* blocks without a header, whatever characters the document and the codes
\* hold
C16_AppendPreservesPrior ==
    (mode = "merge" /\ op = "upsert" /\ SectionIndex(prevDoc) # 0
        /\ Len(UnseenIn(lastSols, ExistingCodes(prevDoc))) > 0)
        => doc = SubSeq(prevDoc, 1, SectionIndex(prevDoc) - 1)
                 \o TrimEnd(ExistingSection(prevDoc)) \o <<NL, NL>>
                 \o RenderedBlocks(UnseenIn(lastSols, ExistingCodes(prevDoc)))

(***************************************************************************)
(* SpecLocate: upsertSolutionsSection applied to notes with header-like    *)
(* text in several places                                                  *)
(***************************************************************************)

\* notes made of an optional fenced block with code y, a line that looks
\* like a solutions header (or does not), and an optional fenced block with
\* code x after it
InitLocate ==
    /\ mode = "locate"
    /\ op = "init"
    /\ doc \in
        ({pre \o head \o post :
             pre \in {<<>>, <<"bt","bt","bt","\n","y","\n","bt","bt","bt","\n">>},
             head \in {<<"#","#"," ","S","o","l","u","t","i","o","n","s">>, <<"#","#"," ","s","o","l","u","t","i","o","n","s">>, <<"#","#"," "," ","CyrR","CyrE","CyrSh","CyrE","CyrN","CyrI","CyrYa"," ">>, <<"#","#","#"," ","S","o","l","u","t","i","o","n","s">>,
                       <<"s","e","e"," ","#","#"," ","S","o","l","u","t","i","o","n","s">>, <<"#","#"," ","S","o","l","u","t","i","o","n","s","x">>, <<"#","#"," ","S","o","l","u","t","i","o","n">>, <<"#"," ","S","o","l","u","t","i","o","n","s">>},
             post \in {<<>>, <<"\n","\n","bt","bt","bt","c","p","p","\n","x","\n","bt","bt","bt","\n">>}})
    /\ prevDoc = Null
    /\ lastSols = <<>>
    /\ lastLang = "en"
    /\ lastMeta = None
    /\ merges = 0
    /\ raw = None
    /\ result = None
    /\ fpUp = TRUE
    /\ inp = None
    /\ lines = <<>>
    /\ out = <<>>
    /\ inCode = FALSE
    /\ pos = 0
    /\ submissions = <<>>
    /\ results = <<>>
    /\ fetched = 0
    /\ pc = <<>>
    /\ contents = <<>>
    /\ resolved = <<>>
    /\ notices = <<>>
    /\ server = <<>>
    /\ limit = 0
    /\ vault = <<>>
    /\ normalizedFolder = <<>>
    /\ requestedPath = <<>>
    /\ counter = 0
    /\ candidate = <<>>

\* const updated = upsertSolutionsSection(content, resolved, language); vault.modify(file, updated)
UpsertOne(solution, language) ==
    /\ mode = "locate"
    /\ op = "init"
    /\ doc' = upsertSolutionsSection(doc, <<solution>>, language)
    /\ prevDoc' = doc
    /\ lastSols' = <<solution>>
    /\ lastLang' = language
    /\ merges' = merges + 1
    /\ op' = "upsert"
    /\ UNCHANGED <<mode, lastMeta, raw, result, fpUp, inp,
                   lines, out, inCode, pos,
                   submissions, results, fetched,
                   pc, contents, resolved, notices,
                   server, limit,
                   vault, normalizedFolder, requestedPath, counter, candidate>>

SpecLocate == InitLocate /\ [][(\E solution \in {SolPad, SolY}, language \in Languages : UpsertOne(solution, language))]_vars

\* index after the spaces and tabs of s from i on
SkipBlanks(s, i) == SkipSet(s, i, {" ", "\t"})

\* does a '##'-level header line with a known label start at index i of
\* content: start of a line, '##', blanks, the label in any case, blanks,
\* end of the line
HeaderLineAt(content, i) ==
    /\ (i = 1 \/ content[i - 1] = NL)
    /\ StartsAt(content, i, <<"#", "#">>)
    /\ SkipBlanks(content, i + 2) > i + 2
    /\ \E l \in Languages :
           /\ StartsAtI(content, SkipBlanks(content, i + 2), SOLUTIONS_HEADERS[l])
           /\ LET e == SkipBlanks(content, SkipBlanks(content, i + 2) + Len(SOLUTIONS_HEADERS[l]))
              IN  e > Len(content) \/ content[e] = NL

\* index of the first such header line, 0 when there is none
HeaderLineIndex(content) ==
    IndexOrZero(First(1, Len(content), [k \in 1..Len(content) |-> HeaderLineAt(content, k)]),
                Len(content))

\* is there a fenced block with this code from index i of content on
FencedFrom(content, i, code) ==
    i > 0 /\ BlocksWithCode(SubSeq(content, i, Len(content)), code) > 0

\* C17: the merge treats as the solutions section exactly the text from the
\* first '##'-level header line with a known label (any case, any locale
\* passed) to the end of the note: a solution whose code is fenced after
\* that line is not added, any other solution is, and a new header is
\* written exactly when there is no such line
C17_SectionLocation ==
    (mode = "locate" /\ op = "upsert") =>
        /\ SectionIndex(prevDoc) = HeaderLineIndex(prevDoc)
        /\ doc = prevDoc <=>
               FencedFrom(prevDoc, HeaderLineIndex(prevDoc), Trim(lastSols[1].code))
        /\ Cardinality({i \in 1..Len(doc) : HeaderLineAt(doc, i)}) = 1

\* the codes of a solution list
CodesOf(solutions) == [i \in 1..Len(solutions) |-> solutions[i].code]

\* C18: extractCodes applied to the section formatSolutionsSection renders
\* for a list returns the trimmed codes of the deduplicated list, in order,
\* one per rendered block, whatever the codes and the language labels are
C18_ExtractInvertsRender ==
    (mode = "render" /\ op = "build") =>
        extractCodes(formatSolutionsSection(lastSols, TRUE, lastLang))
            = CodesOf(dedupeSolutionsByCode(lastSols))

(***************************************************************************)
(* SpecImport: two calls of handleImportSolution on the same note; a call  *)
(* gives way to the other at each await                                    *)
(***************************************************************************)
Calls == {1, 2}

\* the note, the locale of the settings, and no call started; prevDoc keeps
\* the note as it was before the calls
InitImport ==
    /\ mode = "import"
    /\ op = "init"
    /\ doc \in {d \in InitDocs : Len(d) <= 30}
    /\ prevDoc = doc
    /\ lastSols = <<>>
    /\ lastLang = "en"
    /\ lastMeta = None
    /\ merges = 0
    /\ raw = None
    /\ result = None
    /\ fpUp = TRUE
    /\ inp = None
    /\ lines = <<>>
    /\ out = <<>>
    /\ inCode = FALSE
    /\ pos = 0
    /\ submissions = <<>>
    /\ results = <<>>
    /\ fetched = 0
    /\ pc = [p \in Calls |-> "start"]
    /\ contents = [p \in Calls |-> Null]
    /\ resolved = [p \in Calls |-> <<>>]
    /\ notices = [p \in Calls |-> <<>>]
    /\ server = <<>>
    /\ limit = 0
    /\ vault = <<>>
    /\ normalizedFolder = <<>>
    /\ requestedPath = <<>>
    /\ counter = 0
    /\ candidate = <<>>

\* the checks before the try block without the return after the cookie notice
ImportBegin_noReturn(p, file, slug, cookie) ==
    /\ mode = "import"
    /\ pc[p] = "start"
    /\ pc' = [pc EXCEPT ![p] = IF file /\ slug THEN "fetch" ELSE "done"]
    /\ notices' = [notices EXCEPT ![p] =
                      IF ~file THEN Append(@, "noActiveNote")
                      ELSE IF ~slug THEN Append(@, "resolveFromFileFail")
                      ELSE IF ~cookie THEN Append(@, "noCookies")
                      ELSE @]
    /\ op' = "begin"
    /\ UNCHANGED <<mode, doc, prevDoc, lastSols, lastLang, lastMeta, merges, raw, result, fpUp, inp,
                   lines, out, inCode, pos, submissions, results, fetched, contents, resolved,
                   server, limit,
                   vault, normalizedFolder, requestedPath, counter, candidate>>

\* the checks before the try block: the active file, the slug read from it,
\* the cookie header
ImportBegin(p, file, slug, cookie) ==
    /\ mode = "import"
    /\ pc[p] = "start"
    /\ pc' = [pc EXCEPT ![p] = IF file /\ slug /\ cookie THEN "fetch" ELSE "done"]
    /\ notices' = [notices EXCEPT ![p] =
                      IF ~file THEN Append(@, "noActiveNote")
                      ELSE IF ~slug THEN Append(@, "resolveFromFileFail")
                      ELSE IF ~cookie THEN Append(@, "noCookies")
                      ELSE @]
    /\ op' = "begin"
    /\ UNCHANGED <<mode, doc, prevDoc, lastSols, lastLang, lastMeta, merges, raw, result, fpUp, inp,
                   lines, out, inCode, pos, submissions, results, fetched, contents, resolved,
                   server, limit,
                   vault, normalizedFolder, requestedPath, counter, candidate>>

\* const resolved = await solutions: the fetch throws (catch block), returns
\* no solution, or returns some
ImportFetch(p, throws, solutions) ==
    /\ mode = "import"
    /\ pc[p] = "fetch"
    /\ pc' = [pc EXCEPT ![p] = IF throws \/ Len(solutions) = 0 THEN "done" ELSE "read"]
    /\ resolved' = [resolved EXCEPT ![p] = IF throws THEN @ ELSE solutions]
    /\ notices' = [notices EXCEPT ![p] =
                      IF throws THEN Append(@, "error")
                      ELSE IF Len(solutions) = 0 THEN Append(@, "noAccepted")
                      ELSE @]
    /\ op' = "fetch"
    /\ UNCHANGED <<mode, doc, prevDoc, lastSols, lastLang, lastMeta, merges, raw, result, fpUp, inp,
                   lines, out, inCode, pos, submissions, results, fetched, contents,
                   server, limit,
                   vault, normalizedFolder, requestedPath, counter, candidate>>

\* const content = await this.app.vault.read(file)
ImportRead(p) ==
    /\ mode = "import"
    /\ pc[p] = "read"
    /\ contents' = [contents EXCEPT ![p] = doc]
    /\ pc' = [pc EXCEPT ![p] = "modify"]
    /\ op' = "read"
    /\ UNCHANGED <<mode, doc, prevDoc, lastSols, lastLang, lastMeta, merges, raw, result, fpUp, inp,
                   lines, out, inCode, pos, submissions, results, fetched, resolved, notices,
                   server, limit,
                   vault, normalizedFolder, requestedPath, counter, candidate>>

\* const updated = upsertSolutionsSection(content, resolved, language);
\* await this.app.vault.modify(file, updated); new Notice(updated), or the
\* catch block when modify rejects
ImportModify(p, written) ==
    /\ mode = "import"
    /\ pc[p] = "modify"
    /\ doc' = IF written THEN upsertSolutionsSection(contents[p], resolved[p], lastLang) ELSE doc
    /\ notices' = [notices EXCEPT ![p] = Append(@, IF written THEN "updated" ELSE "error")]
    /\ pc' = [pc EXCEPT ![p] = "done"]
    /\ merges' = IF written THEN merges + 1 ELSE merges
    /\ op' = "modify"
    /\ UNCHANGED <<mode, prevDoc, lastSols, lastLang, lastMeta, raw, result, fpUp, inp,
                   lines, out, inCode, pos, submissions, results, fetched, contents, resolved,
                   server, limit,
                   vault, normalizedFolder, requestedPath, counter, candidate>>

SpecImport ==
    InitImport
    /\ [][\E p \in Calls :
             \/ \E file \in BOOLEAN, slug \in BOOLEAN, cookie \in BOOLEAN :
                    ImportBegin(p, file, slug, cookie)
             \/ \E throws \in BOOLEAN, solutions \in {<<>>, <<SolPad>>, <<SolY>>} :
                    ImportFetch(p, throws, solutions)
             \/ ImportRead(p)
             \/ \E written \in BOOLEAN : ImportModify(p, written)]_vars

\* the note after call p and then call q, each run to its end alone
OneAfterTheOther(p, q) ==
    upsertSolutionsSection(upsertSolutionsSection(prevDoc, resolved[p], lastLang),
                           resolved[q], lastLang)

\* C21: when two imports of solutions into the same note have both written
\* the file, the note is what running them one after the other, in one of
\* the two orders, leaves
C21_ImportsSerialized ==
    (mode = "import" /\ \A p \in Calls : pc[p] = "done" /\ notices[p] = <<"updated">>)
        => doc \in {OneAfterTheOther(1, 2), OneAfterTheOther(2, 1)}

MaxTaken == 2   \* the vault holds numbered paths "<base> N<ext>" for N up to this

\* `${base} ${counter}${ext}` with base and ext of resolveCollision;
\* extIndex is path.lastIndexOf("."), counted from 0
Candidate(p, n) ==
    LET extIndex == IF \E i \in 1..Len(p) : p[i] = "."
                    THEN (CHOOSE i \in 1..Len(p) : p[i] = "." /\ \A k \in (i + 1)..Len(p) : p[k] # ".") - 1
                    ELSE 0 - 1
        base == IF extIndex = 0 - 1 THEN p ELSE SubSeq(p, 1, extIndex)
        ext == IF extIndex = 0 - 1 THEN <<>> ELSE SubSeq(p, extIndex + 1, Len(p))
    IN base \o <<" ">> \o NatToText(n) \o ext

\* counter = 1 instead of counter += 1
NextCounter_stuck(n) == 1

\* counter += 1
NextCounter(n) == n + 1

\* the vaults a call can find: the target folder absent, a file or a folder,
\* and any of the requested path and its numbered variants taken by a file
\* or a folder
Vaults(folder, requested) ==
    LET inside == {requested} \cup {Candidate(requested, n) : n \in 1..MaxTaken}
        contentsOf == UNION {[taken -> ({"folder", "file"})] : taken \in SUBSET inside}
    IN IF Len(folder) = 0 THEN contentsOf
       ELSE {<<>>} \cup {(folder :> "file")}
            \cup {(folder :> "folder") @@ f : f \in contentsOf}

\* createNoteFile before ensureFolder: normalizedFolder is none or a folder,
\* the file name is `${baseName}.md` for two values of buildFileName, and
\* requestedPath joins them (both are in the form normalizePath leaves
\* unchanged)
InitCreate ==
    /\ mode = "create"
    /\ op = "init"
    /\ doc = Null
    /\ prevDoc = Null
    /\ lastSols = <<>>
    /\ lastLang = "en"
    /\ lastMeta = None
    /\ merges = 0
    /\ raw = None
    /\ result = None
    /\ fpUp = TRUE
    /\ inp = <<>>
    /\ lines = <<>>
    /\ out = <<>>
    /\ inCode = FALSE
    /\ pos = 0
    /\ submissions = <<>>
    /\ results = <<>>
    /\ fetched = 0
    /\ pc = <<>>
    /\ contents = <<>>
    /\ resolved = <<>>
    /\ notices = <<>>
    /\ server = <<>>
    /\ limit = 0
    /\ normalizedFolder \in ({<<>>, <<"f">>})
    /\ \E fileName \in ({<<"a",".","m","d">>, <<"a",".","b",".","m","d">>}) :
           requestedPath = IF Len(normalizedFolder) > 0 THEN normalizedFolder \o <<"/">> \o fileName
                           ELSE fileName
    /\ vault \in Vaults(normalizedFolder, requestedPath)
    /\ counter = 0
    /\ candidate = <<>>

\* if (normalizedFolder) await this.ensureFolder(normalizedFolder); made
\* says whether createFolder succeeds
EnsureFolder(made) ==
    /\ mode = "create"
    /\ op = "init"
    /\ IF Len(normalizedFolder) = 0
       THEN op' = "ensured" /\ UNCHANGED <<vault, result>>
       ELSE IF normalizedFolder \notin DOMAIN vault
       THEN IF made
            THEN /\ vault' = (normalizedFolder :> "folder") @@ vault
                 /\ op' = "ensured"
                 /\ UNCHANGED result
            ELSE op' = "failed" /\ result' = <<"v","a","u","l","t"," ","e","r","r","o","r">> /\ UNCHANGED vault
       ELSE IF vault[normalizedFolder] # "folder"
       THEN op' = "failed" /\ result' = <<"P","a","t","h"," ">> \o normalizedFolder \o <<" ","i","s"," ","a","l","r","e","a","d","y"," ","a"," ","f","i","l","e",".">> /\ UNCHANGED vault
       ELSE op' = "ensured" /\ UNCHANGED <<vault, result>>
    /\ UNCHANGED <<mode, doc, prevDoc, lastSols, lastLang, lastMeta, merges, raw, fpUp, inp,
                   lines, out, inCode, pos, submissions, results, fetched, pc, contents, resolved,
                   notices, server, limit, normalizedFolder, requestedPath, counter, candidate>>

\* resolveCollision up to its loop: the path itself when it is free, else
\* the first candidate
ResolveStart ==
    /\ mode = "create"
    /\ op = "ensured"
    /\ IF requestedPath \notin DOMAIN vault
       THEN candidate' = requestedPath /\ op' = "resolved" /\ UNCHANGED counter
       ELSE counter' = 1 /\ candidate' = Candidate(requestedPath, 1) /\ op' = "search"
    /\ UNCHANGED <<mode, doc, prevDoc, lastSols, lastLang, lastMeta, merges, raw, result, fpUp, inp,
                   lines, out, inCode, pos, submissions, results, fetched, pc, contents, resolved,
                   notices, server, limit, vault, normalizedFolder, requestedPath>>

\* one iteration of while (this.app.vault.getAbstractFileByPath(candidate))
NextCandidate ==
    /\ mode = "create"
    /\ op = "search"
    /\ candidate \in DOMAIN vault
    /\ counter' = NextCounter(counter)
    /\ candidate' = Candidate(requestedPath, counter')
    /\ UNCHANGED <<mode, op, doc, prevDoc, lastSols, lastLang, lastMeta, merges, raw, result, fpUp, inp,
                   lines, out, inCode, pos, submissions, results, fetched, pc, contents, resolved,
                   notices, server, limit, vault, normalizedFolder, requestedPath>>

\* the end of the loop: return candidate
ReturnCandidate ==
    /\ mode = "create"
    /\ op = "search"
    /\ candidate \notin DOMAIN vault
    /\ op' = "resolved"
    /\ UNCHANGED <<mode, doc, prevDoc, lastSols, lastLang, lastMeta, merges, raw, result, fpUp, inp,
                   lines, out, inCode, pos, submissions, results, fetched, pc, contents, resolved,
                   notices, server, limit, vault, normalizedFolder, requestedPath, counter, candidate>>

\* await this.app.vault.create(finalPath, content); return finalPath;
\* written says whether the vault creates the file
CreateFile(written) ==
    /\ mode = "create"
    /\ op = "resolved"
    /\ IF written /\ candidate \notin DOMAIN vault
       THEN /\ vault' = (candidate :> "note") @@ vault
            /\ result' = candidate
            /\ op' = "created"
       ELSE op' = "failed" /\ result' = <<"v","a","u","l","t"," ","e","r","r","o","r">> /\ UNCHANGED vault
    /\ UNCHANGED <<mode, doc, prevDoc, lastSols, lastLang, lastMeta, merges, raw, fpUp, inp,
                   lines, out, inCode, pos, submissions, results, fetched, pc, contents, resolved,
                   notices, server, limit, normalizedFolder, requestedPath, counter, candidate>>

NextCreate ==
    \/ \E made \in BOOLEAN : EnsureFolder(made)
    \/ ResolveStart
    \/ NextCandidate
    \/ ReturnCandidate
    \/ \E written \in BOOLEAN : CreateFile(written)

\* a call that is not over goes on: nothing outside it is waited for but
\* the vault's answers
SpecCreate == InitCreate /\ [][NextCreate]_vars /\ WF_vars(NextCreate)

\* the path with " n" put before its extension ".md"
Numbered(p, n) == SubSeq(p, 1, Len(p) - 3) \o <<" ">> \o NatToText(n) \o <<".","m","d">>

\* C24: createNoteFile changes nothing that is in the vault; the path it
\* hands to vault.create is the requested path when that path is free and
\* otherwise the requested path numbered with the smallest N >= 1 whose path
\* is free; a target folder path that holds a file ends the call with the
\* pathConflict error and nothing created; and every call ends
C24_NeverOverwrites ==
    /\ [][mode = "create" =>
            /\ \A p \in DOMAIN vault : p \in DOMAIN vault' /\ vault'[p] = vault[p]
            /\ op' = "created" =>
                  /\ result' \notin DOMAIN vault
                  /\ vault' = (result' :> "note") @@ vault
                  /\ requestedPath \notin DOMAIN vault => result' = requestedPath
                  /\ requestedPath \in DOMAIN vault =>
                        \E n \in 1..(MaxTaken + 1) :
                            /\ result' = Numbered(requestedPath, n)
                            /\ \A k \in 1..(n - 1) : (Numbered(requestedPath, k) \in DOMAIN vault)
            /\ (op = "init" /\ normalizedFolder \in DOMAIN vault /\ vault[normalizedFolder] = "file") =>
                  /\ op' = "failed"
                  /\ result' = <<"P","a","t","h"," ","f"," ","i","s"," ","a","l","r","e","a","d","y"," ","a"," ","f","i","l","e",".">>
                  /\ vault' = vault]_vars
    /\ [](mode = "create" /\ op = "failed" => \A p \in DOMAIN vault : vault[p] # "note")
    /\ <>(mode = "create" => op \in {"created", "failed"})

\* C24 witness: the requested path and its first numbered variant are
\* taken, and the note was created as the second
C24_Witness ==
    /\ mode = "create" /\ op = "created"
    /\ requestedPath = <<"f","/","a",".","b",".","m","d">>
    /\ vault = (<<"f">> :> "folder") @@ (<<"f","/","a",".","b",".","m","d">> :> "file") @@ (<<"f","/","a",".","b"," ","1",".","m","d">> :> "folder")
               @@ (<<"f","/","a",".","b"," ","2",".","m","d">> :> "note")
    /\ result = <<"f","/","a",".","b"," ","2",".","m","d">>

====
